---- MODULE Spec2Model ----
(***************************************************************************)
(* A model of mvsfunc (src/mvsfunc.py): the parameter-normalisation layer  *)
(* in front of the VapourSynth plugins fmtconv, zimg and BM3D.             *)
(*                                                                         *)
(* A call of a public function is one action.  The action records the      *)
(* arguments of the call (call), every call it makes into the VapourSynth  *)
(* core, in order (ops), and what it returns or raises (ret).              *)
(***************************************************************************)
EXTENDS Integers, Sequences, FiniteSets, TLC

VARIABLES pc, call, ops, ret

vars == <<pc, call, ops, ret>>

-----------------------------------------------------------------------------
(* Python values.  Every argument is a tagged value: t is the Python type, *)
(* i the number (a float is kept in tenths), s the characters of a str.    *)

None == [t |-> "none", i |-> 0, s |-> <<>>]

PyInt(n) == [t |-> "int", i |-> n, s |-> <<>>]

PyBool(b) == [t |-> "bool", i |-> IF b THEN 1 ELSE 0, s |-> <<>>]

PyStr(cs) == [t |-> "str", i |-> 0, s |-> cs]

PyFloat10(n) == [t |-> "float", i |-> n, s |-> <<>>]

\* a value that is neither None nor an int, a float or a str (a list, say)
Other == [t |-> "other", i |-> 0, s |-> <<>>]

\* a list of values
PyList(xs) == [t |-> "list", i |-> 0, s |-> xs]

IsList(v) == v.t = "list"

\* isinstance(v, int): a Python bool is an int
IsInt(v) == v.t \in {"int", "bool"}

IsStr(v) == v.t = "str"

IsFloat(v) == v.t = "float"

\* the truth value of an int
Truthy(v) == v.i # 0

\* isinstance(v, int) or isinstance(v, float)
IsNum(v) == IsInt(v) \/ IsFloat(v)

\* the number v in tenths
Num10(v) == IF IsFloat(v) THEN v.i ELSE 10 * v.i

\* str.lower(), character by character
LowerChar(c) ==
    CASE c = "A" -> "a" [] c = "B" -> "b" [] c = "C" -> "c" [] c = "D" -> "d"
      [] c = "E" -> "e" [] c = "F" -> "f" [] c = "G" -> "g" [] c = "H" -> "h"
      [] c = "I" -> "i" [] c = "J" -> "j" [] c = "K" -> "k" [] c = "L" -> "l"
      [] c = "M" -> "m" [] c = "N" -> "n" [] c = "O" -> "o" [] c = "P" -> "p"
      [] c = "Q" -> "q" [] c = "R" -> "r" [] c = "S" -> "s" [] c = "T" -> "t"
      [] c = "U" -> "u" [] c = "V" -> "v" [] c = "W" -> "w" [] c = "X" -> "x"
      [] c = "Y" -> "y" [] c = "Z" -> "z" [] OTHER -> c

\* Lower with no letter changed
Lower_Identity(cs) == cs

\* str.lower()
Lower(cs) == [k \in DOMAIN cs |-> LowerChar(cs[k])]

\* the dither names of z.Depth
sNone == <<"n", "o", "n", "e">>

sOrdered == <<"o", "r", "d", "e", "r", "e", "d">>

sRandom == <<"r", "a", "n", "d", "o", "m">>

sErrorDiffusion ==
    <<"e", "r", "r", "o", "r", "_", "d", "i", "f", "f", "u", "s", "i", "o", "n">>

\* vs.INTEGER and vs.FLOAT
INTEGER == 0

FLOAT == 1

\* the largest "dmode" of fmtc.bitdepth that Depth accepts
MaxDmode == 7

-----------------------------------------------------------------------------
(* Clips, the calls into the VapourSynth core, and errors.                 *)
(* A clip is its format, its size, the frame properties the functions      *)
(* write (-1: the property is absent), and id: 0 for the clip the caller passed, k for the clip that   *)
(* the k-th core call of the invocation returned.                          *)

Clip(cf, bits, st, ssw, ssh, w, h) ==
    [id |-> 0, cf |-> cf, bits |-> bits, st |-> st, ssw |-> ssw, ssh |-> ssh,
     w |-> w, h |-> h, ColorRange |-> -1, Matrix |-> -1,
     FieldBased |-> -1, Field |-> -1]

\* a call into the core: op is the plugin function, src the id of the clip
\* it is applied to, sbits/sst the format of that clip, the rest arguments
CoreCall ==
    [op |-> "", src |-> 0, sbits |-> 0, sst |-> 0,
     bits |-> 0, st |-> 0, fulls |-> FALSE, fulld |-> FALSE,
     dither |-> None, ampo |-> None, ampn |-> None,
     prop |-> "", val |-> 0, mat |-> None, coef |-> "", css |-> <<>>,
     kernel |-> None, colfam |-> "", clips |-> <<>>,
     width |-> 0, height |-> 0, color |-> 0,
     expr |-> <<>>, planes |-> None, ref |-> None, radius |-> 0,
     sigma |-> <<>>, profile |-> "", sample |-> 0]

NoErr == [kind |-> "none", arg |-> "", n |-> 0, func |-> ""]

Err(kind, func, arg, n) == [kind |-> kind, arg |-> arg, n |-> n, func |-> func]

\* an invocation in progress: the current clip, the core calls made so far,
\* the exception raised, if any, and, for each call of Depth that got as far
\* as its conversion, the values of its local variables there (plans)
\* planes says, for the functions that copy planes, where each plane of the
\* current clip comes from; arg is the list object of the caller that the
\* invocation was handed, as the invocation leaves it
Ctx(clip) ==
    [clip |-> clip, ops |-> <<>>, err |-> NoErr, plans |-> <<>>, planes |-> <<>>,
     arg |-> None]

Raise(c, e) == [c EXCEPT !.err = e]

Failed(c) == c.err.kind # "none"

\* core.std.SetFrameProp(clip, prop=..., intval=v), or delete=True when v = -1
SetFrameProp(c, prop, v) ==
    [c EXCEPT
       !.ops = Append(@, [CoreCall EXCEPT !.op = "std.SetFrameProp",
                            !.src = c.clip.id, !.sbits = c.clip.bits,
                            !.sst = c.clip.st, !.prop = prop, !.val = v]),
       !.clip = [@ EXCEPT !.id = Len(c.ops) + 1,
                          !.ColorRange = IF prop = "_ColorRange" THEN v ELSE @,
                          !.Matrix = IF prop = "_Matrix" THEN v ELSE @,
                          !.FieldBased = IF prop = "_FieldBased" THEN v ELSE @,
                          !.Field = IF prop = "_Field" THEN v ELSE @]]

\* SetColorSpace(clip, ColorRange=..., Matrix=...): the two properties the
\* main functions set; None and True do nothing, False deletes
SetColorSpace(c, ColorRange, Matrix) ==
    LET c1 == IF ColorRange = None THEN c
              ELSE IF ColorRange.t = "bool"
                   THEN IF ColorRange.i = 0
                        THEN SetFrameProp(c, "_ColorRange", -1) ELSE c
              ELSE IF ColorRange.t = "int"
                   THEN IF ColorRange.i >= 0 /\ ColorRange.i <= 1
                        THEN SetFrameProp(c, "_ColorRange", ColorRange.i)
                        ELSE Raise(c, Err("ValueError", "SetColorSpace", "ColorRange", 0))
              ELSE Raise(c, Err("TypeError", "SetColorSpace", "ColorRange", 0))
    IN  IF Failed(c1) \/ Matrix = None THEN c1
        ELSE IF Matrix.t = "bool"
             THEN IF Matrix.i = 0 THEN SetFrameProp(c1, "_Matrix", -1) ELSE c1
        ELSE IF Matrix.t = "int" THEN SetFrameProp(c1, "_Matrix", Matrix.i)
        ELSE Raise(c1, Err("TypeError", "SetColorSpace", "Matrix", 0))

-----------------------------------------------------------------------------
(* Depth(): bit depth conversion with dithering.                           *)

\* "fulls" when not given: limited range for YUV and Gray input
DefaultFulls(cf) == ~(cf = "YUV" \/ cf = "GRAY")

\* the output sample type when "sample" is not given
DefaultSample(depth, dbitPS, sSType) ==
    IF depth = None THEN sSType ELSE IF dbitPS >= 32 THEN FLOAT ELSE 0

\* DefaultUseZ looking at the source side only
DefaultUseZ_SourceOnly(sSType, fulls, dSType, fulld) == sSType = INTEGER /\ fulls

\* "useZ" when not given: full range is involved for an integer format
DefaultUseZ(sSType, fulls, dSType, fulld) ==
    (sSType = INTEGER /\ fulls) \/ (dSType = INTEGER /\ fulld)

\* ForcedZ without the floats below 32 bits
ForcedZ_NoHalfFloat(sSType, sbitPS, dSType, dbitPS) ==
    \/ sSType = INTEGER /\ (sbitPS = 13 \/ sbitPS = 15)
    \/ dSType = INTEGER /\ (dbitPS = 13 \/ dbitPS = 15)

\* the formats for which z.Depth is always used
ForcedZ(sSType, sbitPS, dSType, dbitPS) ==
    \/ sSType = INTEGER /\ (sbitPS = 13 \/ sbitPS = 15)
    \/ dSType = INTEGER /\ (dbitPS = 13 \/ dbitPS = 15)
    \/ (sSType = FLOAT /\ sbitPS < 32) \/ (dSType = FLOAT /\ dbitPS < 32)

\* ResolveUseZ with a given "useZ" deciding on its own
ResolveUseZ_GivenWins(useZ, sSType, sbitPS, fulls, dSType, dbitPS, fulld) ==
    IF useZ = None
    THEN DefaultUseZ(sSType, fulls, dSType, fulld)
         \/ ForcedZ(sSType, sbitPS, dSType, dbitPS)
    ELSE Truthy(useZ)

\* whether z.Depth (TRUE) or fmtc.bitdepth (FALSE) does the conversion
ResolveUseZ(useZ, sSType, sbitPS, fulls, dSType, dbitPS, fulld) ==
    LET given == IF useZ = None THEN DefaultUseZ(sSType, fulls, dSType, fulld)
                 ELSE Truthy(useZ)
    IN  IF ForcedZ(sSType, sbitPS, dSType, dbitPS) THEN TRUE ELSE given

\* DefaultDitherNone without the 32-bit output
DefaultDitherNone_No32(dbitPS, sbitPS, fulls, fulld) ==
    dbitPS >= sbitPS /\ fulld = fulls /\ fulld = FALSE

\* DefaultDitherNone for any two equal ranges
DefaultDitherNone_EqualRange(dbitPS, sbitPS, fulls, fulld) ==
    dbitPS = 32 \/ (dbitPS >= sbitPS /\ fulld = fulls)

\* the conversions whose default is no dithering
DefaultDitherNone(dbitPS, sbitPS, fulls, fulld) ==
    dbitPS = 32 \/ (dbitPS >= sbitPS /\ fulld = fulls /\ fulld = FALSE)

\* "dither" when not given
DefaultDither(dbitPS, sbitPS, fulls, fulld, useZ) ==
    IF DefaultDitherNone(dbitPS, sbitPS, fulls, fulld)
    THEN IF useZ THEN PyStr(sNone) ELSE PyInt(1)
    ELSE IF useZ THEN PyStr(sErrorDiffusion) ELSE PyInt(3)

\* a given "dither" (an int or a lower-cased str) the function supports
DitherSupported(dither) ==
    IF IsStr(dither)
    THEN ~(dither.s # sNone /\ dither.s # sOrdered /\ dither.s # sRandom
           /\ dither.s # sErrorDiffusion)
    ELSE ~(dither.i < 0 \/ dither.i > MaxDmode)

\* DmodeToZ taking only dmode 3 as error diffusion
DmodeToZ_Only3(dither, ampn) ==
    IF dither.i = 0 THEN PyStr(sOrdered)
    ELSE IF dither.i = 3 THEN PyStr(sErrorDiffusion)
    ELSE IF ampn # None /\ ampn.i > 0 THEN PyStr(sRandom) ELSE PyStr(sNone)

\* an int "dither" (dmode of fmtc.bitdepth) as a dither of z.Depth
DmodeToZ(dither, ampn) ==
    IF dither.i = 0 THEN PyStr(sOrdered)
    ELSE IF dither.i = 1 \/ dither.i = 2
         THEN IF ampn # None /\ ampn.i > 0 THEN PyStr(sRandom) ELSE PyStr(sNone)
    ELSE PyStr(sErrorDiffusion)

\* a str "dither" (dither of z.Depth) as dmode and ampn of fmtc.bitdepth
ZToDmode(dither, ampn) ==
    IF dither.s = sNone THEN [dither |-> PyInt(1), ampn |-> ampn]
    ELSE IF dither.s = sOrdered THEN [dither |-> PyInt(0), ampn |-> ampn]
    ELSE IF dither.s = sRandom
         THEN IF ampn = None THEN [dither |-> PyInt(1), ampn |-> PyInt(1)]
              ELSE IF ampn.i > 0 THEN [dither |-> PyInt(1), ampn |-> ampn]
              ELSE [dither |-> PyInt(3), ampn |-> ampn]
    ELSE [dither |-> PyInt(3), ampn |-> ampn]

\* a given, supported "dither" in the representation of the backend in use
ConvertDither(dither, useZ, ampn) ==
    IF useZ /\ IsInt(dither) THEN [dither |-> DmodeToZ(dither, ampn), ampn |-> ampn]
    ELSE IF ~useZ /\ IsStr(dither) THEN ZToDmode(dither, ampn)
    ELSE [dither |-> dither, ampn |-> ampn]

\* "ampo" of fmtc.bitdepth when not given
DefaultAmpo(dither) ==
    IF dither.t = "int" /\ dither.i = 0 THEN PyFloat10(15) ELSE PyInt(1)

\* SkipProcessing for float clips only
SkipProcessing_FloatOnly(sSType, sbitPS, fulls, dSType, dbitPS, fulld) ==
    dSType = sSType /\ dbitPS = sbitPS /\ sSType = FLOAT

\* no conversion is needed
SkipProcessing(sSType, sbitPS, fulls, dSType, dbitPS, fulld) ==
    dSType = sSType /\ dbitPS = sbitPS /\ (sSType = FLOAT \/ fulld = fulls)

\* core.z.Depth(clip, dither, sample, depth, fullrange_in, fullrange_out)
zDepth(c, dither, dSType, dbitPS, fulls, fulld) ==
    [c EXCEPT
       !.ops = Append(@, [CoreCall EXCEPT !.op = "z.Depth",
                            !.src = c.clip.id, !.sbits = c.clip.bits,
                            !.sst = c.clip.st, !.dither = dither, !.st = dSType,
                            !.bits = dbitPS, !.fulls = fulls, !.fulld = fulld]),
       !.clip = [@ EXCEPT !.id = Len(c.ops) + 1, !.bits = dbitPS, !.st = dSType]]

\* core.fmtc.bitdepth(clip, bits, flt, fulls, fulld, dmode, ampo, ampn, ...)
fmtcBitdepth(c, dbitPS, dSType, fulls, fulld, dither, ampo, ampn) ==
    [c EXCEPT
       !.ops = Append(@, [CoreCall EXCEPT !.op = "fmtc.bitdepth",
                            !.src = c.clip.id, !.sbits = c.clip.bits,
                            !.sst = c.clip.st, !.dither = dither, !.st = dSType,
                            !.bits = dbitPS, !.fulls = fulls, !.fulld = fulld,
                            !.ampo = ampo, !.ampn = ampn]),
       !.clip = [@ EXCEPT !.id = Len(c.ops) + 1, !.bits = dbitPS, !.st = dSType]]

\* Depth(input, depth, sample, fulls, fulld, dither, useZ, ampo, ampn), on the
\* clip of c; "dyn" and "staticnoise" are handed to fmtc.bitdepth as given
Depth(c, depth, sample, fulls, fulld, dither, useZ, ampo, ampn) ==
    LET input == c.clip
        sbitPS == input.bits
        sSType == input.st
        fullsR == IF fulls = None THEN DefaultFulls(input.cf) ELSE Truthy(fulls)
        c1 == IF fulls = None THEN c
              ELSE SetColorSpace(c, PyInt(IF fullsR THEN 0 ELSE 1), None)
        dbitPS == IF depth = None THEN sbitPS ELSE depth.i
        dSType == IF sample = None THEN DefaultSample(depth, dbitPS, sSType)
                  ELSE sample.i
        fulldR == IF fulld = None THEN fullsR ELSE Truthy(fulld)
        useZR == ResolveUseZ(useZ, sSType, sbitPS, fullsR, dSType, dbitPS, fulldR)
        low == IF IsStr(dither) THEN PyStr(Lower(dither.s)) ELSE dither
        dn == IF dither = None
              THEN [dither |-> DefaultDither(dbitPS, sbitPS, fullsR, fulldR, useZR),
                    ampn |-> ampn]
              ELSE ConvertDither(low, useZR, ampn)
        ampoR == IF ampo = None THEN DefaultAmpo(dn.dither) ELSE ampo
        skip == SkipProcessing(sSType, sbitPS, fullsR, dSType, dbitPS, fulldR)
        cp == [c1 EXCEPT !.plans = Append(@,
                 [sbitPS |-> sbitPS, sSType |-> sSType, dbitPS |-> dbitPS,
                  dSType |-> dSType, fulls |-> fullsR, fulld |-> fulldR,
                  useZ |-> useZR, dither |-> dn.dither, given |-> dither # None,
                  skip |-> skip])]
        c2 == IF useZR
              THEN zDepth(cp, dn.dither, dSType, dbitPS, fullsR, fulldR)
              ELSE fmtcBitdepth(cp, dbitPS, dSType, fullsR, fulldR,
                                dn.dither, ampoR, dn.ampn)
    IN  IF input.cf = "COMPAT"
        THEN Raise(c, Err("ValueError", "Depth", "color family", 0))
        ELSE IF fulls # None /\ ~IsInt(fulls)
        THEN Raise(c, Err("TypeError", "Depth", "fulls", 0))
        ELSE IF depth # None /\ ~IsInt(depth)
        THEN Raise(c1, Err("TypeError", "Depth", "depth", 0))
        ELSE IF sample # None /\ ~IsInt(sample)
        THEN Raise(c1, Err("TypeError", "Depth", "sample", 0))
        ELSE IF sample # None /\ sample.i # INTEGER /\ sample.i # FLOAT
        THEN Raise(c1, Err("ValueError", "Depth", "sample", 0))
        ELSE IF dSType = INTEGER /\ (dbitPS < 8 \/ dbitPS > 16)
        THEN Raise(c1, Err("ValueError", "Depth", "integer output", dbitPS))
        ELSE IF dSType = FLOAT /\ (dbitPS # 16 /\ dbitPS # 32)
        THEN Raise(c1, Err("ValueError", "Depth", "float output", dbitPS))
        ELSE IF fulld # None /\ ~IsInt(fulld)
        THEN Raise(c1, Err("TypeError", "Depth", "fulld", 0))
        ELSE IF useZ # None /\ ~IsInt(useZ)
        THEN Raise(c1, Err("TypeError", "Depth", "useZ", 0))
        ELSE IF ampn # None /\ ~IsFloat(ampn) /\ ~IsInt(ampn)
        THEN Raise(c1, Err("TypeError", "Depth", "ampn", 0))
        ELSE IF dither # None /\ ~IsInt(dither) /\ ~IsStr(dither)
        THEN Raise(c1, Err("TypeError", "Depth", "dither", 0))
        ELSE IF dither # None /\ ~DitherSupported(low)
        THEN Raise(c1, Err("ValueError", "Depth", "dither", 0))
        ELSE IF ~useZR /\ ampo # None /\ ~IsFloat(ampo) /\ ~IsInt(ampo)
        THEN Raise(c1, Err("TypeError", "Depth", "ampo", 0))
        ELSE IF skip
        THEN cp
        ELSE SetColorSpace(c2, PyInt(IF fulldR THEN 0 ELSE 1), None)

-----------------------------------------------------------------------------
(* GetMatrix(): the "matrix" argument as a matrix name or a matrix id.      *)

\* the matrix names GetMatrix returns
mRGB == <<"R", "G", "B">>

m709 == <<"7", "0", "9">>

mUnspecified == <<"U", "n", "s", "p", "e", "c", "i", "f", "i", "e", "d">>

m601 == <<"6", "0", "1">>

mYCgCo == <<"Y", "C", "g", "C", "o">>

m2020 == <<"2", "0", "2", "0">>

m2020cl == <<"2", "0", "2", "0", "c", "l">>

mOPP == <<"O", "P", "P">>

\* the matrices GetMatrix knows, in the order it tests them: the id, the
\* lower-cased names it accepts, and the name it returns
MatrixRows ==
    <<[id |-> 0, keys |-> {<<"r", "g", "b">>}, name |-> <<"R", "G", "B">>],
      [id |-> 1, keys |-> {<<"7", "0", "9">>, <<"b", "t", "7", "0", "9">>}, name |-> <<"7", "0", "9">>],
      [id |-> 2, keys |-> {<<"u", "n", "s", "p", "e", "c", "i", "f", "i", "e", "d">>}, name |-> <<"U", "n", "s", "p", "e", "c", "i", "f", "i", "e", "d">>],
      [id |-> 4, keys |-> {<<"f", "c", "c">>}, name |-> <<"F", "C", "C">>],
      [id |-> 5, keys |-> {<<"b", "t", "4", "7", "0", "b", "g">>}, name |-> <<"6", "0", "1">>],
      [id |-> 6, keys |-> {<<"6", "0", "1">>, <<"s", "m", "p", "t", "e", "1", "7", "0", "m">>}, name |-> <<"6", "0", "1">>],
      [id |-> 7, keys |-> {<<"2", "4", "0">>, <<"s", "m", "p", "t", "e", "2", "4", "0", "m">>}, name |-> <<"2", "4", "0">>],
      [id |-> 8, keys |-> {<<"y", "c", "g", "c", "o">>, <<"y", "c", "o", "c", "g">>}, name |-> <<"Y", "C", "g", "C", "o">>],
      [id |-> 9, keys |-> {<<"2", "0", "2", "0">>, <<"b", "t", "2", "0", "2", "0", "n", "c">>}, name |-> <<"2", "0", "2", "0">>],
      [id |-> 10, keys |-> {<<"2", "0", "2", "0", "c", "l">>, <<"b", "t", "2", "0", "2", "0", "c">>}, name |-> <<"2", "0", "2", "0", "c", "l">>],
      [id |-> 100, keys |-> {<<"o", "p", "p">>, <<"o", "p", "p", "o", "n", "e", "n", "t">>}, name |-> <<"O", "P", "P">>]>>

\* the row a given int or lower-cased str selects, 0 if none
MatrixRow(matrix) ==
    LET hit == {r \in DOMAIN MatrixRows :
                   \/ IsInt(matrix) /\ matrix.i = MatrixRows[r].id
                   \/ IsStr(matrix) /\ matrix.s \in MatrixRows[r].keys}
    IN  IF hit = {} THEN 0 ELSE CHOOSE r \in hit : \A q \in hit : r <= q

\* a matrix as the id or the name, by the "id" flag
MatrixAs(id, n, name) == IF id THEN PyInt(n) ELSE PyStr(name)

\* ResolutionLevel without the level of an empty clip
ResolutionLevel_NoNoneD(w, h) ==
    IF w <= 1024 /\ h <= 576 THEN "SD"
    ELSE IF w <= 2048 /\ h <= 1536 THEN "HD"
    ELSE "UHD"

\* the resolution level of a clip
ResolutionLevel(w, h) ==
    IF w <= 0 \/ h <= 0 THEN "noneD"
    ELSE IF w <= 1024 /\ h <= 576 THEN "SD"
    ELSE IF w <= 2048 /\ h <= 1536 THEN "HD"
    ELSE "UHD"

\* the matrix of a clip whose matrix is not specified
GuessMatrix(clip, dIsRGB, id) ==
    IF dIsRGB /\ clip.cf = "RGB" THEN MatrixAs(id, 0, mRGB)
    ELSE IF clip.cf = "YCOCG" THEN MatrixAs(id, 8, mYCgCo)
    ELSE IF ResolutionLevel(clip.w, clip.h) = "SD" THEN MatrixAs(id, 6, m601)
    ELSE IF ResolutionLevel(clip.w, clip.h) = "UHD" THEN MatrixAs(id, 9, m2020)
    ELSE MatrixAs(id, 1, m709)

\* GetMatrix(clip, matrix, dIsRGB, id): the exception raised, or the value
GetMatrix(clip, matrix, dIsRGB, id) ==
    LET dIsRGBR == IF dIsRGB = None THEN clip.cf # "RGB" ELSE Truthy(dIsRGB)
        idR == Truthy(id)
        low == IF IsStr(matrix) THEN PyStr(Lower(matrix.s)) ELSE matrix
        r == MatrixRow(low)
        m == IF matrix = None THEN PyStr(mUnspecified)
             ELSE MatrixAs(idR, MatrixRows[r].id, MatrixRows[r].name)
    IN  IF clip.cf = "COMPAT"
        THEN [err |-> Err("ValueError", "GetMatrix", "color family", 0), val |-> None]
        ELSE IF dIsRGB # None /\ ~IsInt(dIsRGB)
        THEN [err |-> Err("TypeError", "GetMatrix", "dIsRGB", 0), val |-> None]
        ELSE IF ~IsInt(id)
        THEN [err |-> Err("TypeError", "GetMatrix", "id", 0), val |-> None]
        ELSE IF matrix # None /\ ~IsInt(matrix) /\ ~IsStr(matrix)
        THEN [err |-> Err("TypeError", "GetMatrix", "matrix", 0), val |-> None]
        ELSE IF matrix # None /\ r = 0
        THEN [err |-> Err("ValueError", "GetMatrix", "matrix", 0), val |-> None]
        ELSE IF m = PyInt(2) \/ m = PyStr(mUnspecified)
        THEN [err |-> NoErr, val |-> GuessMatrix(clip, dIsRGBR, idR)]
        ELSE [err |-> NoErr, val |-> m]

-----------------------------------------------------------------------------
(* ToRGB(): any color space to full range RGB.                              *)

sBicubic == <<"b", "i", "c", "u", "b", "i", "c">>

s444 == <<"4", "4", "4">>

\* DefaultFull by the color family alone
DefaultFull_NoMatrix(cf, matrix) == ~(cf = "YUV" \/ cf = "GRAY")

\* DefaultFull with YCoCg input treated as YUV input
DefaultFull_YCoCgAsYUV(cf, matrix) ==
    IF (cf = "GRAY" \/ cf = "YUV" \/ cf = "YCOCG")
       /\ (matrix = mRGB \/ matrix = mYCgCo \/ matrix = mOPP)
    THEN TRUE
    ELSE cf = "RGB"

\* the source range when "full" is not given
DefaultFull(cf, matrix) ==
    IF (cf = "GRAY" \/ cf = "YUV" \/ cf = "YCOCG")
       /\ (matrix = mRGB \/ matrix = mYCgCo \/ matrix = mOPP)
    THEN TRUE
    ELSE ~(cf = "YUV" \/ cf = "GRAY")

Max2(a, b) == IF a >= b THEN a ELSE b

\* InternalFormat with the higher depth taken as it is
InternalFormat_NoSnap(sSType, sbitPS, dSType, dbitPS, resample) ==
    IF Max2(sSType, dSType) = FLOAT THEN [st |-> FLOAT, bits |-> 32]
    ELSE [st |-> INTEGER, bits |-> IF resample THEN 16 ELSE Max2(sbitPS, dbitPS)]

\* the sample type and depth of the internal processed clip; resample says
\* that chroma re-sampling is needed
InternalFormat(sSType, sbitPS, dSType, dbitPS, resample) ==
    LET pSType == Max2(sSType, dSType)
        hi == Max2(sbitPS, dbitPS)
        snapped == IF hi = 11 THEN 12 ELSE IF hi > 12 /\ hi < 16 THEN 16 ELSE hi
    IN  IF pSType = FLOAT THEN [st |-> pSType, bits |-> 32]
        ELSE [st |-> pSType, bits |-> IF resample THEN 16 ELSE snapped]

\* the core call o on the clip of c: the clip it returns has the next id, the
\* color family cf and the chroma sub-sampling ssw, ssh
CoreApply(c, o, cf, ssw, ssh) ==
    [c EXCEPT
       !.ops = Append(@, [o EXCEPT !.src = c.clip.id, !.sbits = c.clip.bits,
                                   !.sst = c.clip.st]),
       !.clip = [@ EXCEPT !.id = Len(c.ops) + 1, !.cf = cf, !.ssw = ssw, !.ssh = ssh]]

\* core.fmtc.resample(clip, kernel, taps, a1, a2, css, planes, fulls, fulld, cplace)
fmtcResample(c, kernel, css, ssw, ssh, fulls, fulld) ==
    CoreApply(c, [CoreCall EXCEPT !.op = "fmtc.resample", !.kernel = kernel,
                    !.css = css, !.fulls = fulls, !.fulld = fulld],
              c.clip.cf, ssw, ssh)

\* core.fmtc.matrix(clip, mat or coef, fulls, fulld, col_fam)
fmtcMatrix(c, mat, coef, fulls, fulld, colfam) ==
    CoreApply(c, [CoreCall EXCEPT !.op = "fmtc.matrix", !.mat = mat, !.coef = coef,
                    !.fulls = fulls, !.fulld = fulld, !.colfam = colfam],
              colfam, c.clip.ssw, c.clip.ssh)

\* core.fmtc.matrix2020cl(clip, full): RGB to YUV, and YUV to RGB
fmtcMatrix2020cl(c, full) ==
    CoreApply(c, [CoreCall EXCEPT !.op = "fmtc.matrix2020cl", !.fulls = full,
                    !.fulld = full],
              IF c.clip.cf = "RGB" THEN "YUV" ELSE "RGB", c.clip.ssw, c.clip.ssh)

\* core.std.ShufflePlanes(clips, planes, colorfamily), clips given by id
ShufflePlanes(c, clips, colfam) ==
    CoreApply(c, [CoreCall EXCEPT !.op = "std.ShufflePlanes", !.clips = clips,
                    !.colfam = colfam],
              colfam, c.clip.ssw, c.clip.ssh)

\* MatrixTag with every id kept
MatrixTag_Always(id) == id

\* the value SetColorSpace gets for '_Matrix': no tag for an id above 10
MatrixTag(id) == IF id.i > 10 THEN PyBool(FALSE) ELSE id

\* the YUV/YCoCg to RGB matrix conversion of ToRGB
ToRGBMatrix(c, matrix, fulls, fulld) ==
    IF matrix = mOPP THEN fmtcMatrix(c, None, "OPP to RGB", fulls, fulld, "RGB")
    ELSE IF matrix = m2020cl THEN fmtcMatrix2020cl(c, fulls)
    ELSE fmtcMatrix(c, PyStr(matrix), "", fulls, fulld, "RGB")

\* the Gray branch of ToRGB after the depth conversion for the output: the
\* plane is shuffled into R, G and B
ToRGBFromGray(c) ==
    IF Failed(c) THEN c
    ELSE ShufflePlanes(c, <<c.clip.id, c.clip.id, c.clip.id>>, "RGB")

\* the YUV/YCoCg branch of ToRGB after the matrix conversion: the depth
\* conversion for the output
ToRGBFromMatrix(c, fulld, dbitPS, dSType, dither, useZ, ampo, ampn) ==
    IF Failed(c) THEN c
    ELSE Depth(c, PyInt(dbitPS), PyInt(dSType), PyBool(fulld), PyBool(fulld),
               dither, useZ, ampo, ampn)

\* the YUV/YCoCg branch of ToRGB after the depth conversion for the processed
\* clip: re-sampling to 4:4:4 if needed, then the matrix conversion
ToRGBFromYUV(c, matrix, fulls, fulld, sub, dbitPS, dSType, kernelR, dither, useZ, ampo, ampn) ==
    IF Failed(c) THEN c
    ELSE ToRGBFromMatrix(
             ToRGBMatrix(IF sub
                         THEN fmtcResample(c, kernelR, s444, 0, 0, fulls, fulls)
                         ELSE c,
                         matrix, fulls, fulld),
             fulld, dbitPS, dSType, dither, useZ, ampo, ampn)

\* the conversion of ToRGB, the arguments checked and resolved: c carries the
\* clip, input is the clip ToRGB was given
ToRGBConvert(c, input, matrix, fulls, fulld, sub, pf, dbitPS, dSType, kernelR, dither, useZ, ampo, ampn) ==
    IF input.cf = "RGB"
    THEN Depth(c, PyInt(dbitPS), PyInt(dSType), PyBool(fulls), PyBool(fulld),
               dither, useZ, ampo, ampn)
    ELSE IF input.cf = "GRAY"
    THEN ToRGBFromGray(Depth(c, PyInt(dbitPS), PyInt(dSType), PyBool(fulls),
                             PyBool(fulld), dither, useZ, ampo, ampn))
    ELSE ToRGBFromYUV(Depth(c, PyInt(pf.bits), PyInt(pf.st), PyBool(fulls),
                            PyBool(fulls), dither, useZ, ampo, ampn),
                      matrix, fulls, fulld, sub, dbitPS, dSType, kernelR, dither,
                      useZ, ampo, ampn)

\* ToRGB(input, matrix, depth, sample, full, dither, useZ, ampo, ampn, kernel),
\* on the clip of c; "dyn", "staticnoise", "taps", "a1", "a2" and "cplace" are
\* handed to the plugins as given
ToRGB(c, matrix, depth, sample, full, dither, useZ, ampo, ampn, kernel) ==
    LET input == c.clip
        gid == GetMatrix(input, matrix, PyBool(TRUE), PyBool(TRUE))
        c1 == IF matrix = None THEN c ELSE SetColorSpace(c, None, MatrixTag(gid.val))
        gm == GetMatrix(input, matrix, PyBool(TRUE), PyBool(FALSE))
        matrixR == gm.val.s
        sbitPS == input.bits
        sSType == input.st
        sub == input.ssw # 0 \/ input.ssh # 0
        fulls == IF full = None THEN DefaultFull(input.cf, matrixR) ELSE Truthy(full)
        dbitPS == IF depth = None THEN sbitPS ELSE depth.i
        dSType == IF sample = None THEN DefaultSample(depth, dbitPS, sSType)
                  ELSE sample.i
        fulld == TRUE
        pf == InternalFormat(sSType, sbitPS, dSType, dbitPS, sub)
        kernelR == IF kernel = None THEN PyStr(sBicubic) ELSE kernel
    IN  IF matrix # None /\ gid.err # NoErr THEN Raise(c, gid.err)
        ELSE IF gm.err # NoErr THEN Raise(c1, gm.err)
        ELSE IF input.cf = "COMPAT"
        THEN Raise(c1, Err("ValueError", "ToRGB", "color family", 0))
        ELSE IF full # None /\ ~IsInt(full)
        THEN Raise(c1, Err("TypeError", "ToRGB", "full", 0))
        ELSE IF depth # None /\ ~IsInt(depth)
        THEN Raise(c1, Err("TypeError", "ToRGB", "depth", 0))
        ELSE IF sample # None /\ ~IsInt(sample)
        THEN Raise(c1, Err("TypeError", "ToRGB", "sample", 0))
        ELSE IF sample # None /\ sample.i # INTEGER /\ sample.i # FLOAT
        THEN Raise(c1, Err("ValueError", "ToRGB", "sample", 0))
        ELSE IF dSType = INTEGER /\ (dbitPS < 8 \/ dbitPS > 16)
        THEN Raise(c1, Err("ValueError", "ToRGB", "integer output", dbitPS))
        ELSE IF dSType = FLOAT /\ (dbitPS # 16 /\ dbitPS # 32)
        THEN Raise(c1, Err("ValueError", "ToRGB", "float output", dbitPS))
        ELSE IF kernel # None /\ ~IsStr(kernel)
        THEN Raise(c1, Err("TypeError", "ToRGB", "kernel", 0))
        ELSE ToRGBConvert(c1, input, matrixR, fulls, fulld, sub, pf, dbitPS, dSType,
                          kernelR, dither, useZ, ampo, ampn)

-----------------------------------------------------------------------------
(* The calls.                                                              *)

\* the arguments of a call; an argument the function does not have is None
NoCall ==
    [func |-> "", input |-> Clip("", 0, 0, 0, 0, 0, 0),
     depth |-> None, sample |-> None, fulls |-> None, fulld |-> None,
     dither |-> None, useZ |-> None, ampo |-> None, ampn |-> None,
     matrix |-> None, full |-> None, css |-> None, kernel |-> None,
     dIsRGB |-> None, id |-> None, again |-> FALSE, top |-> None,
     src |-> None, ref |-> None, pre |-> None, thr |-> None, elast |-> None,
     brighten_thr |-> None, thrc |-> None, force_expr |-> None, planes |-> None,
     sigma |-> None, radius1 |-> None, radius2 |-> None, refine |-> None,
     psample |-> None, output |-> None, mode |-> None, neutral |-> None]

NoRet ==
    [err |-> NoErr, clip |-> Clip("", 0, 0, 0, 0, 0, 0), plans |-> <<>>,
     val |-> None, planes |-> <<>>, arg |-> None]

\* the largest "depth" a caller asks for, one more than the largest supported
MaxBits == 17

\* the largest noise amplitude "ampn" a caller asks for
MaxAmpn == 1

\* the largest number of optional arguments a caller gives in one call
MaxGiven == 4

ColorFamilies == {"RGB", "YUV", "GRAY", "YCOCG"}

\* bits per sample and sample type of the input clips
SourceFormats ==
    {<<8, INTEGER>>, <<10, INTEGER>>, <<13, INTEGER>>, <<16, FLOAT>>, <<32, FLOAT>>}

DepthInputs ==
    {Clip(cf, f[1], f[2], 0, 0, 640, 480) : cf \in ColorFamilies, f \in SourceFormats}

DepthArgs == {None} \cup {PyInt(n) : n \in {7, 8, 10, 15, 16, MaxBits, 32}}

SampleArgs == {None, PyInt(INTEGER), PyInt(FLOAT)}

BoolArgs == {None, PyBool(TRUE), PyBool(FALSE)}

DitherArgs ==
    {None} \cup {PyInt(n) : n \in -1 .. MaxDmode + 1}
    \cup {PyStr(n) : n \in {sNone, sOrdered, sRandom, sErrorDiffusion,
                            <<"N", "o", "n", "e">>, <<"n", "o">>}}

AmpnArgs == {None} \cup {PyInt(n) : n \in 0 .. MaxAmpn}

AmpoArgs == {None, PyInt(2)}

\* the choices of at most n of the optional arguments names to give
GivenSets(names, n) == {S \in SUBSET names : Cardinality(S) <= n}

\* the values of the argument name when the arguments of S are the given ones
Arg(S, name, values) == IF name \in S THEN values \ {None} ELSE {None}

Init ==
    /\ pc = "idle"
    /\ call = NoCall
    /\ ops = <<>>
    /\ ret = NoRet

\* a caller calls Depth
CallDepth ==
    /\ pc = "idle"
    /\ \E S \in GivenSets({"depth", "sample", "fulls", "fulld", "dither", "useZ",
                             "ampo", "ampn"}, MaxGiven) :
       \E input \in DepthInputs, depth \in Arg(S, "depth", DepthArgs),
          sample \in Arg(S, "sample", SampleArgs), fulls \in Arg(S, "fulls", BoolArgs),
          fulld \in Arg(S, "fulld", BoolArgs), dither \in Arg(S, "dither", DitherArgs),
          useZ \in Arg(S, "useZ", BoolArgs), ampo \in Arg(S, "ampo", AmpoArgs),
          ampn \in Arg(S, "ampn", AmpnArgs) :
          /\ \E c \in {Depth(Ctx(input), depth, sample, fulls, fulld, dither, useZ,
                          ampo, ampn)} :
              /\ call' = [NoCall EXCEPT !.func = "Depth", !.input = input,
                            !.depth = depth, !.sample = sample, !.fulls = fulls,
                            !.fulld = fulld, !.dither = dither, !.useZ = useZ,
                            !.ampo = ampo, !.ampn = ampn]
              /\ ops' = c.ops
              /\ ret' = [NoRet EXCEPT !.err = c.err, !.clip = c.clip, !.plans = c.plans]
    /\ pc' = "done"

\* the caller takes the result
Return ==
    /\ pc = "done"
    /\ pc' = "idle"
    /\ call' = NoCall
    /\ ops' = <<>>
    /\ ret' = NoRet

NextDepth == CallDepth \/ Return

\* the largest number of optional arguments a caller of ToRGB gives
MaxGivenRGB == 3

\* color family and chroma sub-sampling of the input clips of ToRGB
ToRGBFamilies ==
    {<<"RGB", 0, 0>>, <<"GRAY", 0, 0>>, <<"YUV", 0, 0>>, <<"YUV", 1, 1>>,
     <<"YCOCG", 0, 0>>}

ToRGBFormats == {<<8, INTEGER>>, <<10, INTEGER>>, <<16, FLOAT>>, <<32, FLOAT>>}

ClipSizes == {<<640, 480>>, <<1920, 1080>>}

ToRGBInputs ==
    {Clip(cf[1], f[1], f[2], cf[2], cf[3], z[1], z[2]) :
        cf \in ToRGBFamilies, f \in ToRGBFormats, z \in ClipSizes}

MatrixArgs ==
    {None, PyInt(1), PyInt(2), PyInt(100), PyInt(3), PyStr(m2020cl),
     PyStr(<<"O", "p", "p">>)}

RGBDepthArgs == {None} \cup {PyInt(n) : n \in {8, 16, MaxBits, 32}}

FullArgs == BoolArgs \cup {Other}

RGBDitherArgs == {None, PyInt(1), PyInt(MaxDmode + 1), PyStr(sRandom), Other}

RGBAmpnArgs == {None, PyInt(0), PyInt(MaxAmpn), Other}

RGBAmpoArgs == {None, PyInt(2), Other}

KernelArgs == {None, PyStr(sBicubic), Other}

\* a caller calls ToRGB
CallToRGB ==
    /\ pc = "idle"
    /\ \E S \in GivenSets({"matrix", "depth", "sample", "full", "dither", "useZ",
                             "ampo", "ampn", "kernel"}, MaxGivenRGB) :
       \E input \in ToRGBInputs, matrix \in Arg(S, "matrix", MatrixArgs),
          depth \in Arg(S, "depth", RGBDepthArgs),
          sample \in Arg(S, "sample", SampleArgs), full \in Arg(S, "full", FullArgs),
          dither \in Arg(S, "dither", RGBDitherArgs),
          useZ \in Arg(S, "useZ", BoolArgs), ampo \in Arg(S, "ampo", RGBAmpoArgs),
          ampn \in Arg(S, "ampn", RGBAmpnArgs),
          kernel \in Arg(S, "kernel", KernelArgs) :
          /\ \E c \in {ToRGB(Ctx(input), matrix, depth, sample, full, dither, useZ,
                          ampo, ampn, kernel)} :
              /\ call' = [NoCall EXCEPT !.func = "ToRGB", !.input = input,
                            !.matrix = matrix, !.depth = depth, !.sample = sample,
                            !.full = full, !.dither = dither, !.useZ = useZ,
                            !.ampo = ampo, !.ampn = ampn, !.kernel = kernel]
              /\ ops' = c.ops
              /\ ret' = [NoRet EXCEPT !.err = c.err, !.clip = c.clip, !.plans = c.plans]
    /\ pc' = "done"

NextToRGB == CallToRGB \/ Return

SpecToRGB == Init /\ [][NextToRGB]_vars

SpecDepth == Init /\ [][NextDepth]_vars

-----------------------------------------------------------------------------
(* The properties.                                                         *)

Done == pc = "done"

\* a depth conversion: a call of one of the two backends
IsDepthOp(o) == o.op = "z.Depth" \/ o.op = "fmtc.bitdepth"

DepthOps == {k \in DOMAIN ops : IsDepthOp(ops[k])}

\* a 13- or 15-bit integer format, or a float format below 32 bits
OddFormat(bits, st) ==
    (st = INTEGER /\ bits \in {13, 15}) \/ (st = FLOAT /\ bits < 32)

\* such a format is the source or the destination of the conversion
OddInvolved(o) == OddFormat(o.sbits, o.sst) \/ OddFormat(o.bits, o.st)

C2_ForcedStandard ==
    Done => \A k \in DepthOps : OddInvolved(ops[k]) => ops[k].op = "z.Depth"

\* Depth, useZ=False, converted with z.Depth because of such a format
C2_Witness ==
    /\ Done /\ call.func = "Depth" /\ call.useZ = PyBool(FALSE)
    /\ \E k \in DepthOps : OddInvolved(ops[k]) /\ ops[k].op = "z.Depth"

\* C3 as stated: a given useZ decides the backend on its own, for every
\* source and destination format: fmtc.bitdepth with useZ=False, z.Depth
\* with useZ=True.
C3_GivenUseZDecides ==
    (Done /\ call.useZ # None /\ IsInt(call.useZ)) =>
        \A k \in DepthOps :
            ops[k].op = (IF Truthy(call.useZ) THEN "z.Depth" ELSE "fmtc.bitdepth")

\* C3 as amended: a given useZ overrides the default rule but not the forced
\* one: with useZ=True every conversion uses z.Depth; with useZ=False a
\* conversion uses fmtc.bitdepth unless a 13-/15-bit integer or a float below
\* 32 bits is the source or the destination, and then it uses z.Depth.
C3_GivenUseZOverridesDefault ==
    (Done /\ call.useZ # None /\ IsInt(call.useZ)) =>
        \A k \in DepthOps :
            IF Truthy(call.useZ) \/ OddInvolved(ops[k])
            THEN ops[k].op = "z.Depth"
            ELSE ops[k].op = "fmtc.bitdepth"

\* Depth, useZ=False, converted a full range integer clip with fmtc.bitdepth,
\* where the default rule picks z.Depth
C3_Witness ==
    /\ Done /\ call.func = "Depth" /\ call.useZ = PyBool(FALSE)
    /\ \E k \in DepthOps :
          ops[k].op = "fmtc.bitdepth" /\ ops[k].sst = INTEGER /\ ops[k].fulls

\* the plans of the calls of Depth that were given no "dither"
DefaultPlans == {k \in DOMAIN ret.plans : ~ret.plans[k].given}

\* the plan's dither is no dithering: "none" of z.Depth, mode 1 of fmtc.bitdepth
PlansNoDither(p) == p.dither = (IF p.useZ THEN PyStr(sNone) ELSE PyInt(1))

\* the plan's dither is error diffusion: "error_diffusion", or mode 3
PlansErrorDiffusion(p) ==
    p.dither = (IF p.useZ THEN PyStr(sErrorDiffusion) ELSE PyInt(3))

\* C6: with dither not given, the default dither is no dithering exactly when
\* the destination depth is 32, or the destination depth is at least the
\* source depth and both ranges are limited; otherwise it is error diffusion.
\* The default so chosen is the dither handed to the backend.
C6_DefaultDither ==
    Done =>
        /\ \A k \in DefaultPlans :
              LET p == ret.plans[k]
              IN  IF p.dbitPS = 32 \/ (p.dbitPS >= p.sbitPS /\ ~p.fulls /\ ~p.fulld)
                  THEN PlansNoDither(p)
                  ELSE PlansErrorDiffusion(p)
        /\ call.dither = None =>
              \A k \in DepthOps :
                  LET o == ops[k]
                  IN  IF o.bits = 32 \/ (o.bits >= o.sbits /\ ~o.fulls /\ ~o.fulld)
                      THEN o.dither = (IF o.op = "z.Depth" THEN PyStr(sNone) ELSE PyInt(1))
                      ELSE o.dither = (IF o.op = "z.Depth" THEN PyStr(sErrorDiffusion)
                                       ELSE PyInt(3))

\* Depth, dither not given, raised the depth of a limited range clip with
\* fmtc.bitdepth and mode 1
C6_Witness ==
    /\ Done /\ call.func = "Depth" /\ call.dither = None
    /\ \E k \in DepthOps :
          /\ ops[k].op = "fmtc.bitdepth" /\ ops[k].dither = PyInt(1)
          /\ ops[k].bits > ops[k].sbits /\ ops[k].bits < 32
          /\ ~ops[k].fulls /\ ~ops[k].fulld

\* a plan from an integer clip of sbits bits to an integer clip of dbits bits
PlanOfInts(p, sbits, dbits) ==
    p.sSType = INTEGER /\ p.sbitPS = sbits /\ p.dSType = INTEGER /\ p.dbitPS = dbits

\* C7 as stated: the default dither from 8-bit limited to 10-bit limited is
\* error diffusion, and the default from 10-bit to 10-bit of the same range,
\* limited or full, is no dithering.
C7_DefaultDitherCases ==
    Done =>
        \A k \in DefaultPlans :
            LET p == ret.plans[k]
            IN  /\ (PlanOfInts(p, 8, 10) /\ ~p.fulls /\ ~p.fulld) => PlansErrorDiffusion(p)
                /\ (PlanOfInts(p, 10, 10) /\ p.fulls = p.fulld) => PlansNoDither(p)

\* C7 as amended: the default dither from 8-bit limited to 10-bit limited is
\* no dithering; the default from 10-bit to 10-bit of the same range is no
\* dithering when the range is limited and error diffusion when it is full,
\* and in the 10-bit to 10-bit case no conversion is made with it.
C7_DefaultDitherCasesAmended ==
    Done =>
        \A k \in DefaultPlans :
            LET p == ret.plans[k]
            IN  /\ (PlanOfInts(p, 8, 10) /\ ~p.fulls /\ ~p.fulld) => PlansNoDither(p)
                /\ (PlanOfInts(p, 10, 10) /\ ~p.fulls /\ ~p.fulld) =>
                       PlansNoDither(p) /\ p.skip
                /\ (PlanOfInts(p, 10, 10) /\ p.fulls /\ p.fulld) =>
                       PlansErrorDiffusion(p) /\ p.skip

\* Depth, dither not given, converted an 8-bit limited range clip to 10-bit
\* limited range
C7_Witness ==
    /\ Done /\ call.func = "Depth" /\ call.dither = None /\ ret.err = NoErr
    /\ \E k \in DefaultPlans :
          LET p == ret.plans[k]
          IN  PlanOfInts(p, 8, 10) /\ ~p.fulls /\ ~p.fulld /\ ~p.skip
    /\ DepthOps # {}

ZDitherNames == {sNone, sOrdered, sRandom, sErrorDiffusion}

\* a noise amplitude greater than 0 is given
NoiseGiven == call.ampn # None /\ call.ampn.i > 0

C9_RandomDither ==
    Done =>
        \A k \in DepthOps :
            LET o == ops[k]
                d == call.dither
            IN  /\ (d.t = "int" /\ d.i \in {1, 2} /\ o.op = "z.Depth") =>
                      o.dither.s = (IF NoiseGiven THEN sRandom ELSE sNone)
                /\ (d.t = "str" /\ Lower(d.s) = sRandom /\ o.op = "fmtc.bitdepth") =>
                      /\ o.dither = PyInt(1)
                      /\ o.ampn = (IF call.ampn = None THEN PyInt(1) ELSE call.ampn)

\* what the caller of Depth asks for, by the defaults of its arguments
ReqBits == IF call.depth = None THEN call.input.bits ELSE call.depth.i

ReqSample ==
    IF call.sample # None THEN call.sample.i
    ELSE IF call.depth = None THEN call.input.st
    ELSE IF ReqBits >= 32 THEN FLOAT ELSE INTEGER

ReqFulls ==
    IF call.fulls = None THEN call.input.cf \in {"RGB", "YCOCG"} ELSE Truthy(call.fulls)

ReqFulld == IF call.fulld = None THEN ReqFulls ELSE Truthy(call.fulld)

\* a call of Depth for the depth, sample type and range the input has
IdentityCall ==
    /\ Done /\ call.func = "Depth"
    /\ ReqBits = call.input.bits /\ ReqSample = call.input.st /\ ReqFulld = ReqFulls

\* C10 as stated: an identity conversion returns the input clip itself and
\* makes no external call, no frame-property write included.
C10_IdentityNoOp ==
    (IdentityCall /\ ret.err = NoErr) => (ret.clip = call.input /\ ops = <<>>)

\* C10 as amended: an identity conversion makes no pixel-engine call; when it
\* returns, it returns the input clip itself and has made no external call if
\* fulls is not given, and if fulls is given it has made one external call,
\* the write of '_ColorRange' from fulls, and returns the clip so tagged.
C10_IdentityNoConversion ==
    IdentityCall =>
        /\ \A k \in DOMAIN ops : ops[k].op = "std.SetFrameProp"
        /\ ret.err = NoErr =>
              IF call.fulls = None
              THEN ret.clip = call.input /\ ops = <<>>
              ELSE /\ Len(ops) = 1
                   /\ ops[1].prop = "_ColorRange"
                   /\ ops[1].val = (IF ReqFulls THEN 0 ELSE 1)
                   /\ ret.clip = [call.input EXCEPT !.id = 1, !.ColorRange = ops[1].val]

\* Depth, given the input's own integer depth and the range as fulls and
\* fulld, returned the input tagged with the range
C10_Witness ==
    /\ IdentityCall /\ ret.err = NoErr
    /\ call.depth # None /\ call.fulls # None /\ call.fulld # None
    /\ call.input.st = INTEGER
    /\ Len(ops) = 1 /\ ret.clip.id = 1

\* the main functions that take "depth" and "sample"
MainFunctions == {"Depth", "ToRGB", "ToYUV", "BM3D"}

\* the error of an output depth that is not supported
IsDepthError(e) ==
    e.kind = "ValueError" /\ e.arg \in {"integer output", "float output"}

\* the caller asks for an integer output outside 8..16 bits, or for a float
\* output of other than 16 or 32 bits
IllegalOutput ==
    /\ Done /\ call.func \in MainFunctions
    /\ call.depth = None \/ IsInt(call.depth)
    /\ call.sample \in {None, PyInt(INTEGER), PyInt(FLOAT)}
    /\ \/ ReqSample = INTEGER /\ (ReqBits < 8 \/ ReqBits > 16)
       \/ ReqSample = FLOAT /\ ReqBits # 16 /\ ReqBits # 32

\* C4: when the requested output is integer with a depth outside 8..16, or
\* float with a depth other than 16 or 32, the function fails with an error
\* that names the depth, and before any external call of the invocation has
\* been made, the writes of frame properties included.  (Stated of the calls in
\* which that error is the one raised.)
C4_FailsBeforeAnyCall ==
    (IllegalOutput /\ IsDepthError(ret.err)) => (ret.err.n = ReqBits /\ ops = <<>>)

\* the arguments whose checks C5 is about, as the errors name them
CheckedArgs ==
    {"dither", "ampo", "ampn", "kernel", "depth", "sample", "full",
     "integer output", "float output"}

\* a call of the pixel engine or of the denoise engine
IsEngineOp(o) == o.op # "std.SetFrameProp"

\* C5: in every ToRGB, ToYUV and BM3D call, an error raised for an invalid
\* argument (dither, ampo, ampn, kernel, depth, sample, full) is raised before
\* the first pixel-engine or denoise-engine operation of that call.
C5_NoPartialApplication ==
    (/\ Done /\ call.func \in {"ToRGB", "ToYUV", "BM3D"}
     /\ ret.err # NoErr /\ ret.err.arg \in CheckedArgs) =>
        \A k \in DOMAIN ops : ~IsEngineOp(ops[k])

\* C11: whenever Depth is called with fulld given and returns normally, the
\* '_ColorRange' property of the returned clip has been overwritten from fulld
\* (0 for full, 1 for limited), the calls that need no conversion included.
C11_FulldTagsOutput ==
    (/\ Done /\ call.func = "Depth" /\ ret.err = NoErr
     /\ call.fulld # None) =>
        ret.clip.ColorRange = (IF Truthy(call.fulld) THEN 0 ELSE 1)

\* the source range a main function resolved: the one it hands to its first
\* call of Depth
SourceFull == ret.plans[1].fulls

\* a core call that converts limited range to full range
IsRangeExpansion(o) ==
    /\ o.op \in {"z.Depth", "fmtc.bitdepth", "fmtc.matrix"}
    /\ ~o.fulls /\ o.fulld

\* C12: every clip ToRGB returns is full range: when the source range resolves
\* to limited, for integer and float sample types alike, a limited-to-full
\* conversion is applied on the way, and the returned clip is tagged
\* '_ColorRange' = 0, never limited.
C12_ToRGBFullRange ==
    (Done /\ call.func = "ToRGB" /\ ret.err = NoErr) =>
        /\ ret.clip.ColorRange = 0
        /\ ~SourceFull => \E k \in DOMAIN ops : IsRangeExpansion(ops[k])

-----------------------------------------------------------------------------
(* ToYUV(): any color space to YUV/YCoCg with or without sub-sampling.      *)

RECURSIVE Pow2(_)
\* 1 << n
Pow2(n) == IF n <= 0 THEN 1 ELSE 2 * Pow2(n - 1)

\* the css presets and the two-digit form each stands for
CssPresets ==
    <<[keys |-> {<<"4", "4", "4">>, <<"4", ":", "4", ":", "4">>}, css |-> <<"1", "1">>],
      [keys |-> {<<"4", "4", "0">>, <<"4", ":", "4", ":", "0">>}, css |-> <<"1", "2">>],
      [keys |-> {<<"4", "2", "2">>, <<"4", ":", "2", ":", "2">>}, css |-> <<"2", "1">>],
      [keys |-> {<<"4", "2", "0">>, <<"4", ":", "2", ":", "0">>}, css |-> <<"2", "2">>],
      [keys |-> {<<"4", "1", "1">>, <<"4", ":", "1", ":", "1">>}, css |-> <<"4", "1">>],
      [keys |-> {<<"4", "1", "0">>, <<"4", ":", "1", ":", "0">>}, css |-> <<"4", "2">>]>>

\* a given css with a preset replaced by its two digits
PresetCss(css) ==
    LET hit == {r \in DOMAIN CssPresets : css \in CssPresets[r].keys}
    IN  IF hit = {} THEN css ELSE CssPresets[CHOOSE r \in hit : TRUE].css

\* the decimal digits, as int() reads them
Digits ==
    [ch \in {"0", "1", "2", "3", "4", "5", "6", "7", "8", "9"} |->
        CASE ch = "0" -> 0 [] ch = "1" -> 1 [] ch = "2" -> 2 [] ch = "3" -> 3
          [] ch = "4" -> 4 [] ch = "5" -> 5 [] ch = "6" -> 6 [] ch = "7" -> 7
          [] ch = "8" -> 8 [] ch = "9" -> 9]

\* str(n) of a one-digit n
DigitStr(n) == CHOOSE ch \in DOMAIN Digits : Digits[ch] = n

\* the exception of int(css[0]), int(css[1]), "" if there is none
CssError(css) ==
    IF Len(css) < 1 THEN "IndexError"
    ELSE IF css[1] \notin DOMAIN Digits THEN "ValueError"
    ELSE IF Len(css) < 2 THEN "IndexError"
    ELSE IF css[2] \notin DOMAIN Digits THEN "ValueError"
    ELSE ""

\* the sub-sampling of the output: css as fmtc.resample gets it, and the
\* horizontal and vertical factors; sH, sV are the factors of the input
ChromaSubSampling(css, sH, sV) ==
    IF css = None
    THEN [css |-> <<DigitStr(sH), DigitStr(sV)>>, h |-> sH, v |-> sV]
    ELSE LET p == PresetCss(css.s)
         IN  [css |-> p, h |-> Digits[p[1]], v |-> Digits[p[2]]]

\* subsampling_w, subsampling_h of a format with the given factor
SubShift(n) == IF n = 1 THEN 0 ELSE IF n = 2 THEN 1 ELSE IF n = 4 THEN 2 ELSE 3

\* the destination range of ToYUV when "full" is not given
DefaultFulld(cf, matrix) ==
    IF matrix = mRGB \/ matrix = mYCgCo \/ matrix = mOPP THEN TRUE
    ELSE cf = "YCOCG"

\* ToYUVFulls with a given "full" not read
ToYUVFulls_IgnoresFull(cf, matrix, full) ==
    IF cf = "RGB" THEN TRUE ELSE DefaultFull(cf, matrix)

\* the source range of ToYUV: always full for RGB input
ToYUVFulls(cf, matrix, full) ==
    IF cf = "RGB" THEN TRUE
    ELSE IF full = None THEN DefaultFull(cf, matrix)
    ELSE Truthy(full)

\* core.std.BlankClip(clip, width, height, color): a new clip, with the next
\* id; the current clip of c stays
BlankClip(c, width, height, color) ==
    [c EXCEPT
       !.ops = Append(@, [CoreCall EXCEPT !.op = "std.BlankClip",
                            !.src = c.clip.id, !.sbits = c.clip.bits,
                            !.sst = c.clip.st, !.width = width,
                            !.height = height, !.color = color])]

\* ToYUVMatrix with no conversion to OPP
ToYUVMatrix_NoOPP(c, matrix, fulls, fulld) ==
    IF matrix = mOPP THEN c
    ELSE IF matrix = m2020cl THEN fmtcMatrix2020cl(c, fulld)
    ELSE fmtcMatrix(c, PyStr(matrix), "", fulls, fulld,
                    IF matrix = mYCgCo THEN "YCOCG" ELSE "YUV")

\* the RGB to YUV/YCoCg matrix conversion of ToYUV
ToYUVMatrix(c, matrix, fulls, fulld) ==
    IF matrix = mOPP THEN fmtcMatrix(c, None, "RGB to OPP", fulls, fulld, "YUV")
    ELSE IF matrix = m2020cl THEN fmtcMatrix2020cl(c, fulld)
    ELSE fmtcMatrix(c, PyStr(matrix), "", fulls, fulld,
                    IF matrix = mYCgCo THEN "YCOCG" ELSE "YUV")

\* the Gray branch of ToYUV, after the depth conversion: Y from the clip and
\* two chroma planes from a blank clip
ToYUVGray(c, input, dH, dV, dSType, dbitPS) ==
    LET widthc == input.w \div dH
        heightc == input.w \div dV
        uv == BlankClip(c, widthc, heightc,
                        IF dSType = FLOAT THEN 0 ELSE Pow2(dbitPS - 1))
        UV == Len(uv.ops)
    IN  CoreApply(uv, [CoreCall EXCEPT !.op = "std.ShufflePlanes",
                         !.clips = <<c.clip.id, UV, UV>>, !.colfam = "YUV"],
                  "YUV", SubShift(dH), SubShift(dV))

\* the YUV/YCoCg branch of ToYUV after the depth conversion for the processed
\* clip: re-sampling if needed, then the depth conversion for the output
ToYUVFromYUV(c, d, sub, fulls, fulld, dbitPS, dSType, kernelR, dither, useZ, ampo, ampn) ==
    IF Failed(c) THEN c
    ELSE Depth(IF sub
               THEN fmtcResample(c, kernelR, d.css, SubShift(d.h), SubShift(d.v),
                                 fulls, fulls)
               ELSE c,
               PyInt(dbitPS), PyInt(dSType), PyBool(fulls), PyBool(fulld),
               dither, useZ, ampo, ampn)

\* the Gray branch of ToYUV after the depth conversion for the output
ToYUVFromGray(c, input, d, dSType, dbitPS) ==
    IF Failed(c) THEN c ELSE ToYUVGray(c, input, d.h, d.v, dSType, dbitPS)

\* the RGB branch of ToYUV after the matrix conversion: re-sampling if needed,
\* then the depth conversion for the output
ToYUVFromMatrix(c, d, sub, fulld, dbitPS, dSType, kernelR, dither, useZ, ampo, ampn) ==
    Depth(IF sub
          THEN fmtcResample(c, kernelR, d.css, SubShift(d.h), SubShift(d.v),
                            fulld, fulld)
          ELSE c,
          PyInt(dbitPS), PyInt(dSType), PyBool(fulld), PyBool(fulld),
          dither, useZ, ampo, ampn)

\* the RGB branch of ToYUV after the depth conversion for the processed clip
ToYUVFromRGB(c, matrix, d, sub, fulls, fulld, dbitPS, dSType, kernelR, dither, useZ, ampo, ampn) ==
    IF Failed(c) THEN c
    ELSE ToYUVFromMatrix(ToYUVMatrix(c, matrix, fulls, fulld), d, sub, fulld,
                         dbitPS, dSType, kernelR, dither, useZ, ampo, ampn)

\* the conversion of ToYUV, the arguments checked and resolved: c carries the
\* clip, input is the clip ToYUV was given
ToYUVConvert(c, input, matrix, fulls, fulld, d, sub, pf, dbitPS, dSType, kernelR, dither, useZ, ampo, ampn) ==
    IF input.cf = "YUV" \/ input.cf = "YCOCG"
    THEN ToYUVFromYUV(IF sub
                      THEN Depth(c, PyInt(pf.bits), PyInt(pf.st), PyBool(fulls),
                                 PyBool(fulls), dither, useZ, ampo, ampn)
                      ELSE c,
                      d, sub, fulls, fulld, dbitPS, dSType, kernelR, dither, useZ,
                      ampo, ampn)
    ELSE IF input.cf = "GRAY"
    THEN ToYUVFromGray(Depth(c, PyInt(dbitPS), PyInt(dSType), PyBool(fulls),
                             PyBool(fulld), dither, useZ, ampo, ampn),
                       input, d, dSType, dbitPS)
    ELSE ToYUVFromRGB(Depth(c, PyInt(pf.bits), PyInt(pf.st), PyBool(fulls),
                            PyBool(fulls), dither, useZ, ampo, ampn),
                      matrix, d, sub, fulls, fulld, dbitPS, dSType, kernelR,
                      dither, useZ, ampo, ampn)

\* ToYUV(input, matrix, css, depth, sample, full, dither, useZ, ampo, ampn,
\* kernel), on the clip of c; "dyn", "staticnoise", "taps", "a1", "a2" and
\* "cplace" are handed to the plugins as given
ToYUV(c, matrix, css, depth, sample, full, dither, useZ, ampo, ampn, kernel) ==
    LET input == c.clip
        gid == GetMatrix(input, matrix, PyBool(FALSE), PyBool(TRUE))
        c1 == IF matrix = None THEN c ELSE SetColorSpace(c, None, MatrixTag(gid.val))
        gm == GetMatrix(input, matrix, PyBool(FALSE), PyBool(FALSE))
        matrixR == gm.val.s
        sIsRGB == input.cf = "RGB"
        sbitPS == input.bits
        sSType == input.st
        sHSubS == Pow2(input.ssw)
        sVSubS == Pow2(input.ssh)
        fulls == ToYUVFulls(input.cf, matrixR, full)
        dbitPS == IF depth = None THEN sbitPS ELSE depth.i
        dSType == IF sample = None THEN DefaultSample(depth, dbitPS, sSType)
                  ELSE sample.i
        fulld == IF full = None THEN DefaultFulld(input.cf, matrixR) ELSE Truthy(full)
        d == ChromaSubSampling(css, sHSubS, sVSubS)
        sub == d.h # sHSubS \/ d.v # sVSubS
        pf == InternalFormat(sSType, sbitPS, dSType, dbitPS, sub)
        kernelR == IF kernel = None THEN PyStr(sBicubic) ELSE kernel
    IN  IF matrix # None /\ gid.err # NoErr THEN Raise(c, gid.err)
        ELSE IF gm.err # NoErr THEN Raise(c1, gm.err)
        ELSE IF input.cf = "COMPAT"
        THEN Raise(c1, Err("ValueError", "ToYUV", "color family", 0))
        ELSE IF ~sIsRGB /\ full # None /\ ~IsInt(full)
        THEN Raise(c1, Err("TypeError", "ToYUV", "full", 0))
        ELSE IF depth # None /\ ~IsInt(depth)
        THEN Raise(c1, Err("TypeError", "ToYUV", "depth", 0))
        ELSE IF sample # None /\ ~IsInt(sample)
        THEN Raise(c1, Err("TypeError", "ToYUV", "sample", 0))
        ELSE IF sample # None /\ sample.i # INTEGER /\ sample.i # FLOAT
        THEN Raise(c1, Err("ValueError", "ToYUV", "sample", 0))
        ELSE IF dSType = INTEGER /\ (dbitPS < 8 \/ dbitPS > 16)
        THEN Raise(c1, Err("ValueError", "ToYUV", "integer output", dbitPS))
        ELSE IF dSType = FLOAT /\ (dbitPS # 16 /\ dbitPS # 32)
        THEN Raise(c1, Err("ValueError", "ToYUV", "float output", dbitPS))
        ELSE IF full # None /\ ~IsInt(full)
        THEN Raise(c1, Err("TypeError", "ToYUV", "full", 0))
        ELSE IF css # None /\ ~IsStr(css)
        THEN Raise(c1, Err("TypeError", "ToYUV", "css", 0))
        ELSE IF css # None /\ CssError(PresetCss(css.s)) # ""
        THEN Raise(c1, Err(CssError(PresetCss(css.s)), "int", "css", 0))
        ELSE IF kernel # None /\ ~IsStr(kernel)
        THEN Raise(c1, Err("TypeError", "ToYUV", "kernel", 0))
        ELSE ToYUVConvert(c1, input, matrixR, fulls, fulld, d, sub, pf, dbitPS,
                          dSType, kernelR, dither, useZ, ampo, ampn)

-----------------------------------------------------------------------------
(* Conversions: calls of Depth, ToRGB and ToYUV over the formats, the       *)
(* matrices, the ranges and the sub-samplings, the arguments of the         *)
(* dithering and of the resampler defaulted.                                *)

\* color family and chroma sub-sampling of the input clips
ConvertFamilies ==
    {<<"RGB", 0, 0>>, <<"GRAY", 0, 0>>, <<"YUV", 0, 0>>, <<"YUV", 1, 1>>,
     <<"YUV", 1, 0>>, <<"YCOCG", 0, 0>>, <<"YCOCG", 1, 1>>}

\* bits per sample and sample type of the input clips
ConvertFormats ==
    {<<8, INTEGER>>, <<9, INTEGER>>, <<11, INTEGER>>, <<12, INTEGER>>,
     <<14, INTEGER>>, <<16, INTEGER>>, <<16, FLOAT>>, <<32, FLOAT>>}

ConvertInputs ==
    {Clip(cf[1], f[1], f[2], cf[2], cf[3], z[1], z[2]) :
        cf \in ConvertFamilies, f \in ConvertFormats, z \in ClipSizes}

\* input clips that carry a '_Matrix' property
TaggedInputs ==
    {[c EXCEPT !.Matrix = 6] : c \in {x \in ConvertInputs : x.bits = 8 /\ x.w = 640}}

ConvertMatrixArgs ==
    {None, PyInt(0), PyInt(1), PyInt(8), PyInt(10), PyInt(100)}

ConvertDepthArgs == {None} \cup {PyInt(n) : n \in {8, 10, 12, 13, 16, 32}}

ConvertCssArgs ==
    {None, PyStr(<<"4", "2", "0">>), PyStr(<<"1", "1">>),
     PyStr(<<"4", ":", "2", ":", "2">>)}

\* a caller calls Depth with the range and the depth
ConvertDepth ==
    /\ pc = "idle"
    /\ \E input \in ConvertInputs, depth \in ConvertDepthArgs, fulls \in BoolArgs,
          fulld \in BoolArgs :
          /\ input.w = 640
          /\ \E c \in {Depth(Ctx(input), depth, None, fulls, fulld, None, None,
                          None, None)} :
              /\ call' = [NoCall EXCEPT !.func = "Depth", !.input = input,
                            !.depth = depth, !.fulls = fulls, !.fulld = fulld]
              /\ ops' = c.ops
              /\ ret' = [NoRet EXCEPT !.err = c.err, !.clip = c.clip, !.plans = c.plans]
    /\ pc' = "done"

\* a caller calls ToRGB with the matrix, the range and the depth; the size of
\* the clip matters to the guess of the matrix only
ConvertToRGB ==
    /\ pc = "idle"
    /\ \E input \in ConvertInputs \cup TaggedInputs, matrix \in ConvertMatrixArgs,
          depth \in ConvertDepthArgs, full \in BoolArgs :
          /\ matrix = None \/ input.w = 640
          /\ \E c \in {ToRGB(Ctx(input), matrix, depth, None, full, None, None,
                          None, None, None)} :
              /\ call' = [NoCall EXCEPT !.func = "ToRGB", !.input = input,
                            !.matrix = matrix, !.depth = depth, !.full = full]
              /\ ops' = c.ops
              /\ ret' = [NoRet EXCEPT !.err = c.err, !.clip = c.clip, !.plans = c.plans]
    /\ pc' = "done"

\* a caller calls ToYUV with the matrix, the sub-sampling, the range and the
\* depth
ConvertToYUV ==
    /\ pc = "idle"
    /\ \E input \in ConvertInputs \cup TaggedInputs, matrix \in ConvertMatrixArgs,
          css \in ConvertCssArgs, depth \in ConvertDepthArgs, full \in BoolArgs :
          /\ matrix = None \/ input.w = 640
          /\ \E c \in {ToYUV(Ctx(input), matrix, css, depth, None, full, None, None,
                          None, None, None)} :
              /\ call' = [NoCall EXCEPT !.func = "ToYUV", !.input = input,
                            !.matrix = matrix, !.css = css, !.depth = depth,
                            !.full = full]
              /\ ops' = c.ops
              /\ ret' = [NoRet EXCEPT !.err = c.err, !.clip = c.clip, !.plans = c.plans]
    /\ pc' = "done"

NextConvert == ConvertDepth \/ ConvertToRGB \/ ConvertToYUV \/ Return

SpecConvert == Init /\ [][NextConvert]_vars

-----------------------------------------------------------------------------
(* The properties of the ranges and the matrices.                           *)

\* the range flag of the call: "fulls" of Depth, "full" of the others
RangeFlag == IF call.func = "Depth" THEN call.fulls ELSE call.full

\* the call got as far as its first call of Depth
Resolved == Done /\ call.func \in MainFunctions /\ Len(ret.plans) >= 1

\* the matrix the call resolved, as a name; Depth has none
ResolvedMatrix ==
    IF call.func = "Depth" THEN <<>>
    ELSE GetMatrix(call.input, call.matrix, PyBool(call.func # "ToYUV"),
                   PyBool(FALSE)).val.s

FirstRangeTag ==
    LET W == {k \in DOMAIN ops : ops[k].prop = "_ColorRange"}
    IN  IF W = {} THEN -2 ELSE ops[CHOOSE k \in W : \A q \in W : k <= q].val

\* '_ColorRange' of a range
RangeTag(full) == IF full THEN 0 ELSE 1

-----------------------------------------------------------------------------
(* Calls of GetMatrix.                                                      *)

\* width and height of the clips: the borders of the resolution levels, and
\* clips with no size
MatrixClipSizes ==
    {<<640, 480>>, <<1024, 576>>, <<1025, 576>>, <<1024, 577>>, <<1920, 1080>>,
     <<2048, 1536>>, <<2049, 1536>>, <<4000, 2000>>, <<0, 480>>, <<640, 0>>,
     <<-1, -1>>}

MatrixClips ==
    {Clip(cf, 8, INTEGER, 0, 0, z[1], z[2]) : cf \in ColorFamilies, z \in MatrixClipSizes}

\* "matrix": absent, the ids, ids GetMatrix does not know, names in several
\* letter cases, a name it does not know, and a value that is no int or str
GetMatrixArgs ==
    {None, Other}
    \cup {PyInt(n) : n \in {0, 1, 2, 3, 4, 5, 6, 7, 8, 9, 10, 11, 100}}
    \cup {PyStr(n) : n \in {mUnspecified, <<"u", "n", "s", "p", "e", "c", "i", "f", "i", "e", "d">>,
                            mRGB, m709, <<"b", "t", "7", "0", "9">>, <<"F", "C", "C">>,
                            <<"b", "t", "4", "7", "0", "b", "g">>, m601, <<"2", "4", "0">>,
                            mYCgCo, <<"Y", "C", "O", "C", "G">>, m2020, <<"B", "T", "2", "0", "2", "0", "N", "C">>,
                            m2020cl, mOPP, <<"o", "p", "p", "o", "n", "e", "n", "t">>,
                            <<"x">>}}

\* a caller calls GetMatrix
CallGetMatrix ==
    /\ pc = "idle"
    /\ \E clip \in MatrixClips, matrix \in GetMatrixArgs, dIsRGB \in BoolArgs,
          id \in {PyBool(FALSE), PyBool(TRUE)} :
          \E r \in {GetMatrix(clip, matrix, dIsRGB, id)} :
              /\ call' = [NoCall EXCEPT !.func = "GetMatrix", !.input = clip,
                            !.matrix = matrix, !.dIsRGB = dIsRGB, !.id = id]
              /\ ret' = [NoRet EXCEPT !.err = r.err, !.val = r.val]
    /\ ops' = <<>>
    /\ pc' = "done"

\* the caller calls GetMatrix again, on the same clip and with the same
\* flags, with the value it returned as "matrix"
CallGetMatrixAgain ==
    /\ pc = "done" /\ call.func = "GetMatrix" /\ ret.err = NoErr
    /\ \E r \in {GetMatrix(call.input, ret.val, call.dIsRGB, call.id)} :
          /\ call' = [call EXCEPT !.matrix = ret.val, !.again = TRUE]
          /\ ret' = [NoRet EXCEPT !.err = r.err, !.val = r.val]
    /\ UNCHANGED <<pc, ops>>

NextGetMatrix == CallGetMatrix \/ CallGetMatrixAgain \/ Return

SpecGetMatrix == Init /\ [][NextGetMatrix]_vars

\* "matrix" is absent: None, 2 or "Unspecified" in any letter case
MatrixAbsent(matrix) ==
    \/ matrix = None
    \/ matrix = PyInt(2)
    \/ IsStr(matrix) /\ Lower(matrix.s) = Lower(mUnspecified)

\* the destination is RGB: dIsRGB, or not the source's being RGB by default
DestIsRGB ==
    IF call.dIsRGB = None THEN call.input.cf # "RGB" ELSE Truthy(call.dIsRGB)

\* a matrix as GetMatrix returns it under the id flag of the call
AsReturned(n, name) == IF Truthy(call.id) THEN PyInt(n) ELSE PyStr(name)

\* C16: an absent matrix (None, 2 or "Unspecified") is resolved to a concrete
\* one, never Unspecified: RGB if source and destination are both RGB; else
\* YCgCo if the source is YCoCg; else by the size: width <= 1024 and height
\* <= 576 gives 601 (6), otherwise width <= 2048 and height <= 1536 gives 709
\* (1), otherwise 2020 (9); a clip of zero or negative width or height does
\* not fail and gives 709 (1).
C16_AbsentMatrix ==
    (Done /\ call.func = "GetMatrix" /\ ~call.again /\ MatrixAbsent(call.matrix)) =>
        LET w == call.input.w
            h == call.input.h
        IN  /\ ret.err = NoErr
            /\ ret.val \notin {PyInt(2), PyStr(mUnspecified)}
            /\ ret.val =
                 (IF DestIsRGB /\ call.input.cf = "RGB" THEN AsReturned(0, mRGB)
                  ELSE IF call.input.cf = "YCOCG" THEN AsReturned(8, mYCgCo)
                  ELSE IF w <= 0 \/ h <= 0 THEN AsReturned(1, m709)
                  ELSE IF w <= 1024 /\ h <= 576 THEN AsReturned(6, m601)
                  ELSE IF w <= 2048 /\ h <= 1536 THEN AsReturned(1, m709)
                  ELSE AsReturned(9, m2020))

\* GetMatrix, matrix = 2 and id set, on a YUV clip of no width returned 1
C16_Witness ==
    /\ Done /\ call.func = "GetMatrix" /\ ~call.again
    /\ call.matrix = PyInt(2) /\ call.id = PyBool(TRUE)
    /\ call.input.cf = "YUV" /\ call.input.w = 0 /\ ret.val = PyInt(1)

\* C17: GetMatrix is idempotent: for every clip, dIsRGB, id flag and accepted
\* matrix m, GetMatrix(clip, GetMatrix(clip, m, dIsRGB, id), dIsRGB, id) is
\* GetMatrix(clip, m, dIsRGB, id).
C17_GetMatrixIdempotent ==
    (Done /\ call.func = "GetMatrix" /\ call.again) =>
        (ret.err = NoErr /\ ret.val = call.matrix)

\* GetMatrix, given the "601" it had returned, returned "601" again
C17_Witness ==
    /\ Done /\ call.func = "GetMatrix" /\ call.again
    /\ call.matrix = PyStr(m601) /\ ret.val = PyStr(m601)

\* the writes of '_Matrix' of the call
MatrixWrites == {k \in DOMAIN ops : ops[k].prop = "_Matrix"}

\* the id of the matrix the call resolved
ResolvedMatrixId ==
    GetMatrix(call.input, call.matrix, PyBool(call.func # "ToYUV"), PyBool(TRUE)).val.i

\* C18: ToRGB and ToYUV write '_Matrix' only when "matrix" is given and never
\* write a value above 10: a given matrix of id at most 10 sets '_Matrix' to
\* the id; a given matrix of id above 10 (OPP, 100) leaves the clip without
\* the tag, the one write being the removal of the property; with matrix not
\* given there is no write and the property of the input stays.
C18_MatrixTag ==
    (Done /\ call.func \in {"ToRGB", "ToYUV"}) =>
        /\ \A k \in MatrixWrites : ops[k].val <= 10
        /\ IF call.matrix = None
           THEN MatrixWrites = {} /\ (ret.err = NoErr => ret.clip.Matrix = call.input.Matrix)
           ELSE /\ MatrixWrites = {1} /\ ops[1].src = 0
                /\ ops[1].val = (IF ResolvedMatrixId <= 10 THEN ResolvedMatrixId ELSE -1)
                /\ ret.clip.Matrix = ops[1].val

\* ToYUV, matrix=100, removed the '_Matrix' property of a clip that had one
C18_Witness ==
    /\ Done /\ call.func = "ToYUV" /\ ret.err = NoErr
    /\ call.matrix = PyInt(100) /\ call.input.Matrix = 6
    /\ MatrixWrites = {1} /\ ops[1].val = -1 /\ ret.clip.Matrix = -1

-----------------------------------------------------------------------------
(* The properties of the conversion pipeline.                               *)

\* the call needs chroma re-sampling: ToRGB on a sub-sampled clip, ToYUV for a
\* css other than the one of the clip
NeedsResample ==
    IF call.func = "ToRGB" THEN call.input.ssw # 0 \/ call.input.ssh # 0
    ELSE LET d == ChromaSubSampling(call.css, Pow2(call.input.ssw),
                                    Pow2(call.input.ssh))
         IN  d.h # Pow2(call.input.ssw) \/ d.v # Pow2(call.input.ssh)

\* the calls whose first call of Depth converts to the internal format
UsesInternalFormat ==
    /\ Resolved
    /\ \/ call.func = "ToRGB" /\ call.input.cf \in {"YUV", "YCOCG"}
       \/ call.func = "ToYUV" /\ call.input.cf = "RGB"
       \/ call.func = "ToYUV" /\ call.input.cf \in {"YUV", "YCOCG"} /\ NeedsResample

\* an integer depth snapped upward into 8, 9, 10, 12, 16
Snapped(bits) ==
    IF bits = 11 THEN 12 ELSE IF bits \in 13 .. 15 THEN 16 ELSE bits

\* C19: in ToRGB and ToYUV the internal format is 32-bit float if the source
\* or the destination is float; otherwise it is integer, of the higher of the
\* two depths snapped upward into {8, 9, 10, 12, 16}, and of 16 bits whenever
\* chroma re-sampling is required; so it is in {8, 9, 10, 12, 16} and never
\* below the source or the destination depth.
C19_InternalFormat ==
    UsesInternalFormat =>
        LET p == ret.plans[1]
            s == call.input.bits
            d == ReqBits
        IN  IF call.input.st = FLOAT \/ ReqSample = FLOAT
            THEN p.dSType = FLOAT /\ p.dbitPS = 32
            ELSE /\ p.dSType = INTEGER
                 /\ p.dbitPS = (IF NeedsResample THEN 16
                                ELSE Snapped(IF s >= d THEN s ELSE d))
                 /\ p.dbitPS \in {8, 9, 10, 12, 16}
                 /\ p.dbitPS >= s /\ p.dbitPS >= d

\* ToRGB converted an 11-bit YUV 4:4:4 clip to 12 bits for the matrix
C19_Witness ==
    /\ UsesInternalFormat /\ call.func = "ToRGB" /\ ret.err = NoErr
    /\ call.input.bits = 11 /\ ~NeedsResample /\ call.depth = None
    /\ ret.plans[1].dbitPS = 12 /\ ret.plans[1].dSType = INTEGER

\* the kind of a core call
OpKind(o) ==
    IF IsDepthOp(o) THEN "depth"
    ELSE IF o.op = "fmtc.resample" THEN "resample"
    ELSE IF o.op = "fmtc.matrix" \/ o.op = "fmtc.matrix2020cl" THEN "matrix"
    ELSE o.op

\* the kinds of the core calls of the call, the frame-property writes left
\* out, in the order they were made
Pipeline ==
    LET E == SelectSeq(ops, IsEngineOp)
    IN  [k \in DOMAIN E |-> OpKind(E[k])]

\* a depth conversion, or none when the clip has the format already
DepthStep == {<<>>, <<"depth">>}

\* the chroma re-sampling step: there if and only if it is needed
ResampleStep == IF NeedsResample THEN <<"resample">> ELSE <<>>

\* ToRGB returned for a YUV or YCoCg clip
YUVToRGB ==
    /\ Done /\ call.func = "ToRGB" /\ ret.err = NoErr
    /\ call.input.cf \in {"YUV", "YCOCG"}

\* ToYUV returned for an RGB clip
RGBToYUV ==
    Done /\ call.func = "ToYUV" /\ ret.err = NoErr /\ call.input.cf = "RGB"

\* the order of ToRGB: depth conversion to the internal format at the source
\* range, chroma up-sampling to 4:4:4 if and only if the input is sub-sampled,
\* matrix, depth conversion to the destination format
ToRGBOrder ==
    YUVToRGB =>
        /\ \E pre \in DepthStep, post \in DepthStep :
              Pipeline = pre \o ResampleStep \o <<"matrix">> \o post
        /\ \A k \in DOMAIN ops :
              ops[k].op = "fmtc.resample" => ops[k].css = s444
        /\ ret.plans[1].fulls = ret.plans[1].fulld

RequestedCss ==
    ChromaSubSampling(call.css, Pow2(call.input.ssw), Pow2(call.input.ssh))

\* the calls of std.BlankClip the call made
BlankClips == {k \in DOMAIN ops : ops[k].op = "std.BlankClip"}

\* ToRGB or ToYUV returned for a Gray clip
GrayConverted ==
    /\ Done /\ call.func \in {"ToRGB", "ToYUV"} /\ ret.err = NoErr
    /\ call.input.cf = "GRAY"

\* C21: for Gray input, ToRGB and ToYUV perform no matrix transform and no
\* resampling; ToYUV builds the output from the depth-converted gray plane as
\* Y plus one constant chroma plane, used for U and V, whose value is neutral
\* (0 for float, 2^(depth-1) for integer output) and whose size is the input
\* width / horizontal sub-sampling by the input height / vertical
\* sub-sampling.
C21_GrayInput ==
    GrayConverted =>
        /\ \A k \in DOMAIN ops : OpKind(ops[k]) \notin {"matrix", "resample"}
        /\ call.func = "ToYUV" =>
              /\ Cardinality(BlankClips) = 1
              /\ \A k \in BlankClips :
                    /\ ops[k].width = call.input.w \div RequestedCss.h
                    /\ ops[k].height = call.input.h \div RequestedCss.v
                    /\ ops[k].color = (IF ret.clip.st = FLOAT THEN 0
                                       ELSE Pow2(ret.clip.bits - 1))
                    /\ ops[Len(ops)].op = "std.ShufflePlanes"
                    /\ ops[Len(ops)].clips[2] = k /\ ops[Len(ops)].clips[3] = k

-----------------------------------------------------------------------------
(* The frame property functions AssumeFrame, AssumeTFF, AssumeBFF and      *)
(* AssumeField, called one after the other on a clip.                       *)

\* AssumeFrame(clip)
AssumeFrame(c) ==
    SetFrameProp(SetFrameProp(c, "_FieldBased", 0), "_Field", -1)

\* AssumeTFF(clip)
AssumeTFF(c) ==
    SetFrameProp(SetFrameProp(c, "_FieldBased", 2), "_Field", -1)

\* AssumeBFF(clip)
AssumeBFF(c) ==
    SetFrameProp(SetFrameProp(c, "_FieldBased", 1), "_Field", -1)

\* AssumeField with '_FieldBased' left as it is
AssumeField_KeepsFieldBased(c, top) ==
    IF ~IsInt(top) THEN Raise(c, Err("TypeError", "AssumeField", "top", 0))
    ELSE SetFrameProp(c, "_Field", IF Truthy(top) THEN 1 ELSE 0)

\* AssumeField(clip, top)
AssumeField(c, top) ==
    IF ~IsInt(top) THEN Raise(c, Err("TypeError", "AssumeField", "top", 0))
    ELSE SetFrameProp(SetFrameProp(c, "_FieldBased", -1), "_Field",
                      IF Truthy(top) THEN 1 ELSE 0)

\* the largest number of Assume* calls a caller makes on a clip
MaxAssumeCalls == 3

AssumeFuncs == {"AssumeFrame", "AssumeTFF", "AssumeBFF", "AssumeField"}

\* the clips a caller starts from: '_FieldBased' and '_Field' absent or set
AssumeInputs ==
    {[Clip("YUV", 8, INTEGER, 1, 1, 640, 480) EXCEPT !.FieldBased = fb, !.Field = f] :
        fb \in {-1, 0, 1, 2}, f \in {-1, 0, 1}}

TopArgs == {PyBool(TRUE), PyBool(FALSE), PyInt(2), None}

\* what the next Assume* call is made on: a clip of the caller, or the clip
\* the previous Assume* call returned
AssumeTargets ==
    IF pc = "idle" THEN {Ctx(i) : i \in AssumeInputs}
    ELSE IF /\ call.func \in AssumeFuncs /\ ret.err = NoErr
            /\ Len(ops) < 2 * MaxAssumeCalls
    THEN {[Ctx(ret.clip) EXCEPT !.ops = ops]}
    ELSE {}

CallAssumeFrame ==
    /\ \E t \in AssumeTargets : \E c \in {AssumeFrame(t)} :
          /\ call' = [NoCall EXCEPT !.func = "AssumeFrame", !.input = t.clip]
          /\ ops' = c.ops
          /\ ret' = [NoRet EXCEPT !.err = c.err, !.clip = c.clip]
    /\ pc' = "done"

CallAssumeTFF ==
    /\ \E t \in AssumeTargets : \E c \in {AssumeTFF(t)} :
          /\ call' = [NoCall EXCEPT !.func = "AssumeTFF", !.input = t.clip]
          /\ ops' = c.ops
          /\ ret' = [NoRet EXCEPT !.err = c.err, !.clip = c.clip]
    /\ pc' = "done"

CallAssumeBFF ==
    /\ \E t \in AssumeTargets : \E c \in {AssumeBFF(t)} :
          /\ call' = [NoCall EXCEPT !.func = "AssumeBFF", !.input = t.clip]
          /\ ops' = c.ops
          /\ ret' = [NoRet EXCEPT !.err = c.err, !.clip = c.clip]
    /\ pc' = "done"

CallAssumeField ==
    /\ \E t \in AssumeTargets, top \in TopArgs : \E c \in {AssumeField(t, top)} :
          /\ call' = [NoCall EXCEPT !.func = "AssumeField", !.input = t.clip,
                        !.top = top]
          /\ ops' = c.ops
          /\ ret' = [NoRet EXCEPT !.err = c.err, !.clip = c.clip]
    /\ pc' = "done"

NextAssume ==
    CallAssumeFrame \/ CallAssumeTFF \/ CallAssumeBFF \/ CallAssumeField \/ Return

SpecAssume == Init /\ [][NextAssume]_vars

\* an Assume* call returned
Assumed == Done /\ call.func \in AssumeFuncs /\ ret.err = NoErr

\* C30: after any sequence of AssumeFrame, AssumeTFF, AssumeBFF and
\* AssumeField calls on a clip, exactly one of '_FieldBased' and '_Field' is
\* present: AssumeFrame/AssumeTFF/AssumeBFF as the last call leaves
\* '_FieldBased' = 0/2/1 and no '_Field'; AssumeField(top) as the last call
\* leaves '_Field' = 1 for top, 0 for bottom, and no '_FieldBased'; whatever
\* the clip carried and whatever the calls before were.
C30_FieldProperties ==
    Assumed =>
        /\ (ret.clip.FieldBased = -1) # (ret.clip.Field = -1)
        /\ call.func = "AssumeFrame" => ret.clip.FieldBased = 0 /\ ret.clip.Field = -1
        /\ call.func = "AssumeTFF" => ret.clip.FieldBased = 2 /\ ret.clip.Field = -1
        /\ call.func = "AssumeBFF" => ret.clip.FieldBased = 1 /\ ret.clip.Field = -1
        /\ call.func = "AssumeField" =>
              /\ ret.clip.FieldBased = -1
              /\ ret.clip.Field = (IF Truthy(call.top) THEN 1 ELSE 0)

\* AssumeField(top=True) was the third call, on a clip AssumeTFF had marked
C30_Witness ==
    /\ Assumed /\ call.func = "AssumeField" /\ call.top = PyBool(TRUE)
    /\ Len(ops) = 6 /\ call.input.FieldBased = 2 /\ call.input.Field = -1
    /\ ret.clip.Field = 1 /\ ret.clip.FieldBased = -1

-----------------------------------------------------------------------------
(* LimitFilter.  The clip of the invocation is flt (id 0); src has id -1   *)
(* and ref id -2.  Thresholds are kept in tenths.  A plane of the result   *)
(* is "flt" or "src" when it is that clip's plane and "limited" when it is *)
(* computed: std.Expr copies the plane of its first clip for an empty      *)
(* expression, std.MakeDiff for a plane not in "planes".                   *)

VSMaxPlaneNum == 3

\* sFormat.num_planes
NumPlanes(clip) == IF clip.cf = "GRAY" THEN 1 ELSE 3

\* the same format and the same size
SameFormat(a, b) ==
    a.cf = b.cf /\ a.bits = b.bits /\ a.st = b.st /\ a.ssw = b.ssw /\ a.ssh = b.ssh

SameSize(a, b) == a.w = b.w /\ a.h = b.h

\* the first element of the list planes that is not a plane number, 0 if
\* there is none
FirstBadPlane(xs) ==
    LET bad == {k \in DOMAIN xs :
                   ~IsInt(xs[k]) \/ xs[k].i < 0 \/ xs[k].i >= VSMaxPlaneNum}
    IN  IF bad = {} THEN 0 ELSE CHOOSE k \in bad : \A j \in bad : k <= j

\* "process" of LimitFilter as the set of the planes to process, or the
\* error the argument raises
ProcessPlanes(planes, funcName) ==
    IF planes = None THEN [err |-> NoErr, set |-> 0 .. VSMaxPlaneNum - 1]
    ELSE IF IsInt(planes)
    THEN IF planes.i < 0 \/ planes.i >= VSMaxPlaneNum
         THEN [err |-> Err("ValueError", funcName, "planes", 0), set |-> {}]
         ELSE [err |-> NoErr, set |-> {planes.i}]
    ELSE IF IsList(planes)
    THEN IF FirstBadPlane(planes.s) = 0
         THEN [err |-> NoErr, set |-> {planes.s[k].i : k \in DOMAIN planes.s}]
         ELSE IF ~IsInt(planes.s[FirstBadPlane(planes.s)])
         THEN [err |-> Err("TypeError", funcName, "planes", 0), set |-> {}]
         ELSE [err |-> Err("ValueError", funcName, "planes", 0), set |-> {}]
    ELSE [err |-> Err("TypeError", funcName, "planes", 0), set |-> {}]

\* the planes a "planes" argument of a core function selects
CorePlanes(planes) ==
    IF planes = None THEN 0 .. VSMaxPlaneNum - 1
    ELSE IF IsInt(planes) THEN {planes.i}
    ELSE {planes.s[k].i : k \in DOMAIN planes.s}

\* _LimitFilterExpr(defref, thr, elast, largen_thr, value_range): the kind of
\* the expression, "y" for src, "" for the empty one; thr * value_range / 255
\* is compared without the division, thr, elast and largen_thr in tenths
LimitFilterExpr(defref, thr, elast, largen_thr, value_range) ==
    IF thr * value_range <= 0 /\ largen_thr * value_range <= 0 THEN "y"
    ELSE IF /\ thr * value_range >= 2550 * value_range
            /\ largen_thr * value_range >= 2550 * value_range
    THEN ""
    ELSE IF elast <= 10 THEN "hard"
    ELSE IF thr * elast - thr * 10 = 0 THEN "ZeroDivisionError"
    ELSE IF largen_thr = thr THEN "soft"
    ELSE IF largen_thr * elast - largen_thr * 10 = 0 THEN "ZeroDivisionError"
    ELSE "soft largen"

\* core.std.Lut(diff, planes, function): the function is called for every
\* value of the input, so for differences of both signs
StdLut(c, planes, lut) ==
    CoreApply(c, [CoreCall EXCEPT !.op = "std.Lut", !.planes = planes, !.expr = <<lut>>],
              c.clip.cf, c.clip.ssw, c.clip.ssh)

\* _LimitDiffLut(diff, thr, elast, largen_thr, planes), diff the clip of c
LimitDiffLut(c, thr, elast, largen_thr, planes) ==
    LET value_range == Pow2(c.clip.bits) - 1
    IN  IF Failed(c) THEN c
        ELSE IF c.clip.st # INTEGER
        THEN Raise(c, Err("ValueError", "_LimitDiffLut", "diff", 0))
        ELSE IF thr * value_range <= 0 /\ largen_thr * value_range <= 0 THEN c
        ELSE IF /\ 2 * thr * value_range >= 2550 * value_range
                /\ 2 * largen_thr * value_range >= 2550 * value_range
        THEN StdLut(c, planes, "neutral")
        ELSE IF elast <= 10 THEN StdLut(c, planes, "hard")
        ELSE IF thr * elast - thr * 10 = 0 \/ largen_thr * elast - largen_thr * 10 = 0
        THEN Raise(c, Err("ZeroDivisionError", "_LimitDiffLut", "thr_slope", 0))
        ELSE StdLut(c, planes, "soft")

\* core.std.MakeDiff(clipa, clipb, planes), clipa the clip of c
StdMakeDiff(c, clipb, planes) ==
    CoreApply(c, [CoreCall EXCEPT !.op = "std.MakeDiff", !.clips = <<c.clip.id, clipb>>,
                    !.planes = planes],
              c.clip.cf, c.clip.ssw, c.clip.ssh)

\* the std.Lut implementation of LimitFilter; c carries flt
LimitFilterLut(c, thr, elast, brighten_thr, thrc, planes, process) ==
    LET sIsYUV == c.clip.cf = "YUV" \/ c.clip.cf = "YCOCG"
        diff == StdMakeDiff(c, -1, planes)
        lutY == IF sIsYUV
                THEN IF 0 \in process
                     THEN LimitDiffLut(diff, thr, elast, brighten_thr,
                                       PyList(<<PyInt(0)>>))
                     ELSE diff
                ELSE LimitDiffLut(diff, thr, elast, brighten_thr, planes)
        lutC == IF sIsYUV /\ (1 \in process \/ 2 \in process)
                THEN LimitDiffLut(lutY, thrc, elast, thrc,
                                  PyList(<<PyInt(1), PyInt(2)>>))
                ELSE lutY
    IN  IF Failed(lutC) THEN [c EXCEPT !.err = lutC.err, !.ops = lutC.ops]
        ELSE [CoreApply([c EXCEPT !.ops = lutC.ops],
                        [CoreCall EXCEPT !.op = "std.MakeDiff",
                           !.clips = <<c.clip.id, lutC.clip.id>>, !.planes = planes],
                        c.clip.cf, c.clip.ssw, c.clip.ssh)
                EXCEPT !.planes = [i \in 1 .. NumPlanes(c.clip) |->
                                     IF i - 1 \in CorePlanes(planes) THEN "limited"
                                     ELSE "flt"]]

\* the std.Expr implementation of LimitFilter; c carries flt
LimitFilterByExpr(c, defref, thr, elast, brighten_thr, thrc, process) ==
    LET sIsYUV == c.clip.cf = "YUV" \/ c.clip.cf = "YCOCG"
        valueRange == IF c.clip.st = INTEGER THEN Pow2(c.clip.bits) - 1 ELSE 1
        limitExprY == LimitFilterExpr(defref, thr, elast, brighten_thr, valueRange)
        limitExprC == LimitFilterExpr(defref, thrc, elast, thrc, valueRange)
        expr == [i \in 1 .. NumPlanes(c.clip) |->
                    IF i - 1 \in process
                    THEN IF i > 1 /\ sIsYUV THEN limitExprC ELSE limitExprY
                    ELSE ""]
    IN  IF limitExprY = "ZeroDivisionError" \/ limitExprC = "ZeroDivisionError"
        THEN Raise(c, Err("ZeroDivisionError", "_LimitFilterExpr", "thr_slope", 0))
        ELSE [CoreApply(c, [CoreCall EXCEPT !.op = "std.Expr",
                              !.clips = IF defref THEN <<c.clip.id, -1, -2>>
                                        ELSE <<c.clip.id, -1>>,
                              !.expr = expr],
                        c.clip.cf, c.clip.ssw, c.clip.ssh)
                EXCEPT !.planes = [i \in 1 .. NumPlanes(c.clip) |->
                                     IF expr[i] = "" THEN "flt"
                                     ELSE IF expr[i] = "y" THEN "src"
                                     ELSE "limited"]]

\* LimitFilter from "# Process" on: the arguments are checked, the thresholds
\* numbers in tenths, process the set of the planes to process
LimitFilterProcess(c, src, defref, thr, elast, brighten_thr, thrc, force_expr, planes, process) ==
    LET sIsYUV == c.clip.cf = "YUV" \/ c.clip.cf = "YCOCG"
        all == [i \in 1 .. NumPlanes(c.clip) |-> "flt"]
    IN  IF thr <= 0 /\ brighten_thr <= 0 /\ (sIsYUV => thrc <= 0)
        THEN [c EXCEPT !.clip = src,
                       !.planes = [i \in 1 .. NumPlanes(c.clip) |-> "src"]]
        ELSE IF thr >= 2550 /\ brighten_thr >= 2550 /\ (sIsYUV => thrc >= 2550)
        THEN [c EXCEPT !.planes = all]
        ELSE IF force_expr \/ thr >= 1280 \/ brighten_thr >= 1280
        THEN LimitFilterByExpr(c, defref, thr, elast, brighten_thr, thrc, process)
        ELSE LimitFilterLut(c, thr, elast, brighten_thr, thrc, planes, process)

\* LimitFilter(flt, src, ref, thr, elast, brighten_thr, thrc, force_expr,
\* planes), flt the clip of c
LimitFilter(c, src, ref, thr, elast, brighten_thr, thrc, force_expr, planes) ==
    LET flt == c.clip
        thrR == IF thr = None THEN 10 ELSE Num10(thr)
        elastR == IF elast = None THEN 20 ELSE Num10(elast)
        brightenR == IF brighten_thr = None THEN thrR ELSE Num10(brighten_thr)
        thrcR == IF thrc = None THEN thrR ELSE Num10(thrc)
        forceR == IF force_expr = None THEN TRUE
                  ELSE Truthy(force_expr) \/ ref # None \/ flt.st # INTEGER
        process == ProcessPlanes(planes, "LimitFilter")
    IN  IF ~SameFormat(flt, src)
        THEN Raise(c, Err("ValueError", "LimitFilter", "src format", 0))
        ELSE IF ~SameSize(flt, src)
        THEN Raise(c, Err("ValueError", "LimitFilter", "src size", 0))
        ELSE IF ref # None /\ ~SameFormat(flt, ref)
        THEN Raise(c, Err("ValueError", "LimitFilter", "ref format", 0))
        ELSE IF ref # None /\ ~SameSize(flt, ref)
        THEN Raise(c, Err("ValueError", "LimitFilter", "ref size", 0))
        ELSE IF thr # None /\ ~IsNum(thr)
        THEN Raise(c, Err("TypeError", "LimitFilter", "thr", 0))
        ELSE IF thr # None /\ thrR < 0
        THEN Raise(c, Err("ValueError", "LimitFilter", "thr", 0))
        ELSE IF elast # None /\ ~IsNum(elast)
        THEN Raise(c, Err("TypeError", "LimitFilter", "elast", 0))
        ELSE IF elast # None /\ elastR < 10
        THEN Raise(c, Err("ValueError", "LimitFilter", "elast", 0))
        ELSE IF brighten_thr # None /\ ~IsNum(brighten_thr)
        THEN Raise(c, Err("TypeError", "LimitFilter", "brighten_thr", 0))
        ELSE IF brighten_thr # None /\ brightenR < 0
        THEN Raise(c, Err("ValueError", "LimitFilter", "brighten_thr", 0))
        ELSE IF thrc # None /\ ~IsNum(thrc)
        THEN Raise(c, Err("TypeError", "LimitFilter", "thrc", 0))
        ELSE IF thrc # None /\ thrcR < 0
        THEN Raise(c, Err("ValueError", "LimitFilter", "thrc", 0))
        ELSE IF force_expr # None /\ ~IsInt(force_expr)
        THEN Raise(c, Err("TypeError", "LimitFilter", "force_expr", 0))
        ELSE IF process.err # NoErr THEN Raise(c, process.err)
        ELSE LimitFilterProcess(c, src, ref # None, thrR, elastR, brightenR, thrcR,
                                forceR, planes, process.set)

\* the clips a caller filters: flt, and src and ref of the same format
LimitInputs ==
    {Clip("YUV", 8, INTEGER, 1, 1, 640, 480), Clip("YUV", 16, INTEGER, 0, 0, 640, 480),
     Clip("YUV", 32, FLOAT, 0, 0, 640, 480), Clip("YCOCG", 8, INTEGER, 0, 0, 640, 480),
     Clip("RGB", 8, INTEGER, 0, 0, 640, 480), Clip("GRAY", 8, INTEGER, 0, 0, 640, 480)}

\* src for flt: a clip of its own (id -1), of the format of flt or not
SrcFor(flt) ==
    {[flt EXCEPT !.id = -1], [flt EXCEPT !.id = -1, !.bits = 10]}

\* ref for flt: none, or a clip of its own (id -2)
RefFor(flt) == {None, [flt EXCEPT !.id = -2]}

ThrArgs == {None, PyInt(0), PyFloat10(10), PyInt(128), PyInt(255), PyInt(-1)}

ElastArgs == {None, PyInt(1), PyFloat10(15)}

BrightenArgs == {None, PyInt(0), PyInt(1), PyInt(255)}

ThrcArgs == {None, PyInt(0), PyInt(1), PyInt(255)}

PlanesArgs ==
    {None, PyInt(0), PyInt(3), PyList(<<PyInt(0)>>), PyList(<<PyInt(1)>>),
     PyList(<<PyInt(1), PyInt(2)>>)}

\* the planes a caller names exist in the clip
PlanesExist(flt, planes) ==
    planes = None \/ \A p \in CorePlanes(planes) : p < NumPlanes(flt) \/ p >= VSMaxPlaneNum

\* a caller calls LimitFilter
CallLimitFilter ==
    /\ pc = "idle"
    /\ \E flt \in LimitInputs, thr \in ThrArgs, elast \in ElastArgs,
          brighten_thr \in BrightenArgs, thrc \in ThrcArgs,
          force_expr \in {None, PyBool(FALSE)}, planes \in PlanesArgs :
       \E src \in SrcFor(flt), ref \in RefFor(flt) :
          /\ PlanesExist(flt, planes)
          /\ src.bits = flt.bits \/ (thr = None /\ planes = None)
          /\ \E c \in {LimitFilter(Ctx(flt), src, ref, thr, elast, brighten_thr, thrc,
                                   force_expr, planes)} :
              /\ call' = [NoCall EXCEPT !.func = "LimitFilter", !.input = flt,
                            !.src = src, !.ref = ref, !.thr = thr, !.elast = elast,
                            !.brighten_thr = brighten_thr, !.thrc = thrc,
                            !.force_expr = force_expr, !.planes = planes]
              /\ ops' = c.ops
              /\ ret' = [NoRet EXCEPT !.err = c.err, !.clip = c.clip,
                                      !.planes = c.planes]
    /\ pc' = "done"

NextLimitFilter == CallLimitFilter \/ Return

SpecLimitFilter == Init /\ [][NextLimitFilter]_vars

\* LimitFilter returned a clip
Limited == Done /\ call.func = "LimitFilter" /\ ret.err = NoErr

\* C27: in the clip LimitFilter returns, each plane that "planes" does not
\* select is the plane of flt, whatever the thresholds are, 0 and 255 and
\* more included.
C27_UnselectedPlanes ==
    Limited =>
        \A i \in 1 .. NumPlanes(call.input) :
            i - 1 \notin CorePlanes(call.planes) => ret.planes[i] = "flt"

\* C28: LimitFilter does not divide by zero for arguments it accepts
\* (thr >= 0, brighten_thr >= 0, thrc >= 0, elast >= 1), the case of exactly
\* one of thr and brighten_thr being 0 with elast > 1 included.
C28_NoZeroDivision ==
    Done /\ call.func = "LimitFilter" => ret.err.kind # "ZeroDivisionError"

-----------------------------------------------------------------------------
(* Min, Max and Avg.  clip1 is the clip of the invocation (id 0), clip2    *)
(* has id -1.  A list the caller passes as "mode" is an object both sides  *)
(* see: arg is that list as the call leaves it.                            *)

\* while len(xs) < VSMaxPlaneNum: xs.append(xs[len(xs) - 1]), xs not empty
Padded(xs) ==
    [i \in 1 .. (IF Len(xs) < VSMaxPlaneNum THEN VSMaxPlaneNum ELSE Len(xs)) |->
        IF i <= Len(xs) THEN xs[i] ELSE xs[Len(xs)]]

\* the expression of _Operator2 for a plane of mode m ("abs" the one that
\* compares the distances to neutral)
Operator2Expr(funcName, m) ==
    IF funcName = "Avg" THEN (IF m >= 1 THEN "avg" ELSE "")
    ELSE IF m >= 2 THEN "abs"
    ELSE IF m = 1 THEN (IF funcName = "Min" THEN "min" ELSE "max")
    ELSE ""

\* _Operator2 from "# neutral" on, mode the list of VSMaxPlaneNum ints
Operator2Process(c, mode, neutral, funcName) ==
    LET neutralR == IF neutral # None THEN neutral
                    ELSE IF c.clip.st = INTEGER THEN PyInt(Pow2(c.clip.bits - 1))
                    ELSE PyInt(0)
    IN  IF neutral # None /\ ~IsNum(neutral)
        THEN Raise(c, Err("TypeError", funcName, "neutral", 0))
        ELSE CoreApply(c, [CoreCall EXCEPT !.op = "std.Expr",
                             !.clips = <<c.clip.id, -1>>, !.val = neutralR,
                             !.expr = [i \in 1 .. NumPlanes(c.clip) |->
                                          Operator2Expr(funcName, mode[i].i)]],
                       c.clip.cf, c.clip.ssw, c.clip.ssh)

\* _Operator2(clip1, clip2, mode, neutral, funcName), clip1 the clip of c
Operator2(c, clip2, mode, neutral, funcName) ==
    LET c0 == [c EXCEPT !.arg = mode]
    IN  IF ~SameFormat(c.clip, clip2)
        THEN Raise(c0, Err("ValueError", funcName, "clip2 format", 0))
        ELSE IF ~SameSize(c.clip, clip2)
        THEN Raise(c0, Err("ValueError", funcName, "clip2 size", 0))
        ELSE IF mode = None
        THEN Operator2Process(c0, [i \in 1 .. VSMaxPlaneNum |-> PyInt(1)], neutral,
                              funcName)
        ELSE IF IsInt(mode)
        THEN Operator2Process(c0, [i \in 1 .. VSMaxPlaneNum |-> mode], neutral, funcName)
        ELSE IF IsList(mode)
        THEN IF \E k \in DOMAIN mode.s : ~IsInt(mode.s[k])
             THEN Raise(c0, Err("TypeError", funcName, "mode", 0))
             ELSE IF mode.s = <<>>
             THEN Raise(c0, Err("IndexError", funcName, "mode", 0))
             ELSE Operator2Process([c0 EXCEPT !.arg = PyList(Padded(mode.s))],
                                   Padded(mode.s), neutral, funcName)
        ELSE Raise(c0, Err("TypeError", funcName, "mode", 0))

\* Min(clip1, clip2, mode, neutral)
Min(c, clip2, mode, neutral) == Operator2(c, clip2, mode, neutral, "Min")

\* Max(clip1, clip2, mode, neutral)
Max(c, clip2, mode, neutral) == Operator2(c, clip2, mode, neutral, "Max")

\* Avg(clip1, clip2, mode)
Avg(c, clip2, mode) == Operator2(c, clip2, mode, None, "Avg")

\* the lists of at most VSMaxPlaneNum modes
RECURSIVE ModeLists(_)
ModeLists(n) ==
    IF n = 0 THEN {<<>>}
    ELSE ModeLists(n - 1)
         \cup {Append(xs, PyInt(m)) : xs \in {ys \in ModeLists(n - 1) : Len(ys) = n - 1},
                                      m \in 0 .. 2}

ModeArgs ==
    {None, PyInt(0), PyInt(1), PyInt(2), Other, PyList(<<PyInt(1), Other>>)}
    \cup {PyList(xs) : xs \in ModeLists(VSMaxPlaneNum)}

NeutralArgs == {None, PyInt(0), Other}

Operator2Inputs ==
    {Clip("YUV", 8, INTEGER, 1, 1, 640, 480), Clip("YUV", 32, FLOAT, 0, 0, 640, 480),
     Clip("GRAY", 16, INTEGER, 0, 0, 640, 480)}

\* clip2 for clip1: a clip of its own (id -1), of the size of clip1 or not
Clip2For(clip1) == {[clip1 EXCEPT !.id = -1], [clip1 EXCEPT !.id = -1, !.w = 320]}

\* a caller calls Min
CallMin ==
    /\ pc = "idle"
    /\ \E clip1 \in Operator2Inputs, mode \in ModeArgs, neutral \in NeutralArgs :
       \E clip2 \in Clip2For(clip1) : \E c \in {Min(Ctx(clip1), clip2, mode, neutral)} :
          /\ call' = [NoCall EXCEPT !.func = "Min", !.input = clip1, !.src = clip2,
                        !.mode = mode, !.neutral = neutral]
          /\ ops' = c.ops
          /\ ret' = [NoRet EXCEPT !.err = c.err, !.clip = c.clip, !.arg = c.arg]
    /\ pc' = "done"

\* a caller calls Max
CallMax ==
    /\ pc = "idle"
    /\ \E clip1 \in Operator2Inputs, mode \in ModeArgs, neutral \in NeutralArgs :
       \E clip2 \in Clip2For(clip1) : \E c \in {Max(Ctx(clip1), clip2, mode, neutral)} :
          /\ call' = [NoCall EXCEPT !.func = "Max", !.input = clip1, !.src = clip2,
                        !.mode = mode, !.neutral = neutral]
          /\ ops' = c.ops
          /\ ret' = [NoRet EXCEPT !.err = c.err, !.clip = c.clip, !.arg = c.arg]
    /\ pc' = "done"

\* a caller calls Avg
CallAvg ==
    /\ pc = "idle"
    /\ \E clip1 \in Operator2Inputs, mode \in ModeArgs :
       \E clip2 \in Clip2For(clip1) : \E c \in {Avg(Ctx(clip1), clip2, mode)} :
          /\ call' = [NoCall EXCEPT !.func = "Avg", !.input = clip1, !.src = clip2,
                        !.mode = mode]
          /\ ops' = c.ops
          /\ ret' = [NoRet EXCEPT !.err = c.err, !.clip = c.clip, !.arg = c.arg]
    /\ pc' = "done"

NextOperator2 == CallMin \/ CallMax \/ CallAvg \/ Return

SpecOperator2 == Init /\ [][NextOperator2]_vars

\* C29: a call of Min, Max or Avg leaves the list the caller passed as
\* "mode" as it was, for lists of every length from 1 to VSMaxPlaneNum (and
\* so does BM3D with the list passed as "sigma").
C29_ArgumentsUnchanged ==
    Done /\ call.func \in {"Min", "Max", "Avg"} /\ call.mode # None /\ IsList(call.mode)
        => ret.arg = call.mode

-----------------------------------------------------------------------------
(* BM3D.  The invocation has the core calls in order in c and its local    *)
(* clips in clip, pre, ref, flt and srcOPP; the clip of the caller has id  *)
(* 0, "pre" id -1 and "ref" id -2.  The statements of the function from    *)
(* "# Convert to processed format" on are listed, by the arguments alone,  *)
(* as the code orders them, and then executed one after the other; an      *)
(* exception ends the execution.  "dither", "useZ", "ampo", "ampn", "dyn", *)
(* "staticnoise", the arguments of the resampler and those of the blocks   *)
(* are handed on as given and left out.                                    *)

sFast == <<"f", "a", "s", "t">>

\* the local variables of BM3D that are clips
BM3DLocals(c, input, pre, ref) ==
    [c |-> c, clip |-> input, pre |-> pre, ref |-> ref, flt |-> None, srcOPP |-> None]

\* a statement: kind is the function called, on the variable it is applied
\* to, to the variable it is assigned to, the rest arguments
Stmt ==
    [kind |-> "", on |-> "", to |-> "", ref |-> "", matrix |-> None, css |-> None,
     depth |-> None, sample |-> None, fulls |-> None, fulld |-> None,
     clips |-> <<>>, colfam |-> "", profile |-> <<>>, sigma |-> <<>>, radius |-> 0]

\* c with the clip x as its current clip
On(c, x) == [c EXCEPT !.clip = x]

\* the assignment of the result r to the variable to
Store(b, to, r) == [b EXCEPT !.c = r, ![to] = r.clip]

\* the id of the clip in variable name, None for no variable or no clip
ClipId(b, name) ==
    IF name = "" THEN None
    ELSE IF b[name] = None THEN None
    ELSE PyInt(b[name].id)

\* core.std.ShufflePlanes(clips, planes, colorfamily) of BM3D: plane k of the
\* k-th clip, or plane 0 of the only clip
BM3DShuffle(b, s) ==
    LET clips == IF s.colfam = "GRAY" THEN <<s.on>> ELSE s.clips
    IN  CoreApply(On(b.c, b[clips[1]]),
                  [CoreCall EXCEPT !.op = "std.ShufflePlanes",
                     !.clips = [k \in DOMAIN clips |-> b[clips[k]].id],
                     !.planes = PyList([k \in DOMAIN clips |-> PyInt(k - 1)]),
                     !.colfam = s.colfam],
                  s.colfam, 0, 0)

\* core.bm3d.Basic / VBasic / VAggregate on the clip of variable s.on
BM3DEngine(b, s) ==
    CoreApply(On(b.c, b[s.on]),
              [CoreCall EXCEPT !.op = s.kind, !.ref = ClipId(b, s.ref),
                 !.profile = s.profile, !.sigma = s.sigma, !.radius = s.radius,
                 !.sample = IF s.kind = "bm3d.VAggregate" THEN s.sample.i ELSE 0,
                 !.val = IF s.kind = "bm3d.VAggregate" THEN 0 ELSE 100],
              b[s.on].cf, b[s.on].ssw, b[s.on].ssh)

\* one statement executed
BM3DStep(b, s) ==
    IF s.kind = "=" THEN [b EXCEPT ![s.to] = b[s.on]]
    ELSE IF s.kind = "Depth"
    THEN Store(b, s.to, Depth(On(b.c, b[s.on]), s.depth, s.sample, s.fulls, s.fulld,
                              None, None, None, None))
    ELSE IF s.kind = "ToRGB"
    THEN Store(b, s.to, ToRGB(On(b.c, b[s.on]), s.matrix, s.depth, s.sample, s.fulls,
                              None, None, None, None, None))
    ELSE IF s.kind = "ToYUV"
    THEN Store(b, s.to, ToYUV(On(b.c, b[s.on]), s.matrix, s.css, s.depth, s.sample,
                              s.fulld, None, None, None, None, None))
    ELSE IF s.kind = "std.ShufflePlanes" THEN Store(b, s.to, BM3DShuffle(b, s))
    ELSE Store(b, s.to, BM3DEngine(b, s))

RECURSIVE BM3DRun(_, _, _)
\* the statements stmts[k], stmts[k + 1], ... executed in order
BM3DRun(b, stmts, k) ==
    IF k > Len(stmts) \/ Failed(b.c) THEN b
    ELSE BM3DRun(BM3DStep(b, stmts[k]), stmts, k + 1)

RECURSIVE Repeat(_, _)
\* n times the sequence xs
Repeat(xs, n) == IF n <= 0 THEN <<>> ELSE xs \o Repeat(xs, n - 1)

\* the statement for each of the variables clip, pre, ref that holds a clip
ForEachClip(s, pre, ref) ==
    <<[s EXCEPT !.on = "clip", !.to = "clip"]>>
    \o (IF pre # None THEN <<[s EXCEPT !.on = "pre", !.to = "pre"]>> ELSE <<>>)
    \o (IF ref # None THEN <<[s EXCEPT !.on = "ref", !.to = "ref"]>> ELSE <<>>)

\* sigma[1] <= 0 and sigma[2] <= 0 with no chroma plane ever processed
OnlyY_Never(sigma) == FALSE

\* sigma[1] <= 0 and sigma[2] <= 0: only Y is processed
OnlyY(sigma) == Num10(sigma[2]) <= 0 /\ Num10(sigma[3]) <= 0

\* "# Convert to processed format"
ToProcessed(sIsGRAY, pre, ref, sigma, matrix, pbitPS, pSType, fulls) ==
    IF sIsGRAY
    THEN ForEachClip([Stmt EXCEPT !.kind = "Depth", !.depth = pbitPS, !.sample = pSType,
                        !.fulls = fulls, !.fulld = PyBool(TRUE)], pre, ref)
    ELSE ForEachClip([Stmt EXCEPT !.kind = "ToRGB", !.matrix = matrix, !.depth = pbitPS,
                        !.sample = pSType, !.fulls = fulls], pre, ref)
         \o ForEachClip([Stmt EXCEPT !.kind = "ToYUV", !.matrix = PyStr(mOPP),
                           !.css = PyStr(s444), !.depth = pbitPS, !.sample = pSType,
                           !.fulld = PyBool(TRUE)], pre, ref)
         \o <<[Stmt EXCEPT !.kind = "=", !.on = "clip", !.to = "srcOPP"]>>
         \o (IF OnlyY(sigma)
             THEN ForEachClip([Stmt EXCEPT !.kind = "std.ShufflePlanes",
                                 !.colfam = "GRAY"], pre, ref)
             ELSE <<>>)

\* the statement of a shuffle to on the variables clips
ShuffleStmt(to, clips) ==
    [Stmt EXCEPT !.kind = "std.ShufflePlanes", !.to = to, !.clips = clips,
                 !.colfam = "YUV"]

\* "# Shuffle Y plane back if not processed"
ShuffleYBack(onlyY, sigma) ==
    IF ~onlyY /\ Num10(sigma[1]) <= 0
    THEN <<ShuffleStmt("flt", <<"clip", "flt", "flt">>)>>
    ELSE <<>>

\* "# Basic estimate"
BasicEstimate(ref, onlyY, sigma, radius1, profile1, pSType) ==
    IF ref # None THEN <<[Stmt EXCEPT !.kind = "=", !.on = "ref", !.to = "flt"]>>
    ELSE IF radius1 < 1
    THEN <<[Stmt EXCEPT !.kind = "bm3d.Basic", !.on = "clip", !.to = "flt",
              !.ref = "pre", !.profile = profile1, !.sigma = sigma]>>
    ELSE <<[Stmt EXCEPT !.kind = "bm3d.VBasic", !.on = "clip", !.to = "flt",
              !.ref = "pre", !.profile = profile1, !.sigma = sigma,
              !.radius = radius1],
           [Stmt EXCEPT !.kind = "bm3d.VAggregate", !.on = "flt", !.to = "flt",
              !.radius = radius1, !.sample = pSType]>>
         \o ShuffleYBack(onlyY, sigma)

\* the body of the loop of "# Final estimate"
FinalEstimate(onlyY, sigma, radius1, radius2, profile2, pSType) ==
    IF radius1 < 1
    THEN <<[Stmt EXCEPT !.kind = "bm3d.Basic", !.on = "clip", !.to = "flt",
              !.ref = "flt", !.profile = profile2, !.sigma = sigma]>>
    ELSE <<[Stmt EXCEPT !.kind = "bm3d.VBasic", !.on = "clip", !.to = "flt",
              !.ref = "flt", !.profile = profile2, !.sigma = sigma,
              !.radius = radius2],
           [Stmt EXCEPT !.kind = "bm3d.VAggregate", !.on = "flt", !.to = "flt",
              !.radius = radius1, !.sample = pSType]>>
         \o ShuffleYBack(onlyY, sigma)

\* "# Convert to output format"
ToOutput(sIsGRAY, sIsRGB, onlyY, sigma, matrix, css, output, pbitPS, pSType, dbitPS, dSType, fulld) ==
    IF sIsGRAY
    THEN <<[Stmt EXCEPT !.kind = "Depth", !.on = "flt", !.to = "clip", !.depth = dbitPS,
              !.sample = dSType, !.fulls = PyBool(TRUE), !.fulld = fulld]>>
    ELSE (IF onlyY THEN <<ShuffleStmt("clip", <<"flt", "srcOPP", "srcOPP">>)>>
          ELSE IF Num10(sigma[2]) <= 0 \/ Num10(sigma[3]) <= 0
          THEN <<ShuffleStmt("clip",
                             <<"flt", IF Num10(sigma[2]) <= 0 THEN "clip" ELSE "flt",
                               IF Num10(sigma[3]) <= 0 THEN "clip" ELSE "flt">>)>>
          ELSE <<[Stmt EXCEPT !.kind = "=", !.on = "flt", !.to = "clip"]>>)
         \o (IF output <= 1
             THEN <<[Stmt EXCEPT !.kind = "ToRGB", !.on = "clip", !.to = "clip",
                       !.matrix = PyStr(mOPP), !.depth = pbitPS, !.sample = pSType,
                       !.fulls = PyBool(TRUE)]>>
             ELSE <<>>)
         \o (IF output <= 0 /\ ~sIsRGB
             THEN <<[Stmt EXCEPT !.kind = "ToYUV", !.on = "clip", !.to = "clip",
                       !.matrix = matrix, !.css = css, !.depth = dbitPS,
                       !.sample = dSType, !.fulld = fulld]>>
             ELSE <<[Stmt EXCEPT !.kind = "Depth", !.on = "clip", !.to = "clip",
                       !.depth = dbitPS, !.sample = dSType, !.fulls = PyBool(TRUE),
                       !.fulld = fulld]>>)

\* the statements of BM3D from "# Convert to processed format" to "# Output"
BM3DStmts(input, pre, ref, sigma, radius1, radius2, profile1, profile2, refine, matrix, css, output, pbitPS, pSType, fulls, dbitPS, dSType, fulld) ==
    ToProcessed(input.cf = "GRAY", pre, ref, sigma, matrix, pbitPS, pSType, fulls)
    \o BasicEstimate(ref, input.cf = "GRAY" \/ OnlyY(sigma), sigma, radius1, profile1,
                     pSType)
    \o Repeat(FinalEstimate(input.cf = "GRAY" \/ OnlyY(sigma), sigma, radius1, radius2,
                            profile2, pSType), refine)
    \o ToOutput(input.cf = "GRAY", input.cf = "RGB", input.cf = "GRAY" \/ OnlyY(sigma),
                sigma, matrix, css, output, pbitPS, pSType, dbitPS, dSType, fulld)

\* "sigma" as the list of three BM3D works with, before the Gray case
SigmaList(sigma) ==
    IF sigma = None THEN <<PyFloat10(50), PyFloat10(50), PyFloat10(50)>>
    ELSE IF IsInt(sigma)
    THEN <<PyFloat10(10 * sigma.i), PyFloat10(10 * sigma.i), PyFloat10(10 * sigma.i)>>
    ELSE IF IsFloat(sigma) THEN <<sigma, sigma, sigma>>
    ELSE Padded(sigma.s)

\* the range of the input when "full" is not given
BM3DFulls(cf, matrix) ==
    IF (cf = "GRAY" \/ cf = "YUV" \/ cf = "YCOCG")
       /\ (matrix = mRGB \/ matrix = mYCgCo \/ matrix = mOPP)
    THEN TRUE
    ELSE ~(cf = "YUV" \/ cf = "GRAY")

\* the range of the output: that of the input for output = 0, full otherwise
Fulld(output, fulls) == IF output = 0 THEN fulls ELSE PyBool(TRUE)

\* BM3D from "# Get properties of output clip" on; the arguments are the
\* local variables of the code, c has the list "sigma" as the code left it
BM3DOutput(c, input, pre, ref, sigma, radius1, radius2, profile1, profile2, refine, matrix, css, output, pbitPS, pSType, fulls, depth, sample) ==
    LET sIsGRAY == input.cf = "GRAY"
        dbitPS == IF depth = None THEN (IF output = 0 THEN input.bits ELSE pbitPS)
                  ELSE depth.i
        dSType == IF sample # None THEN sample.i
                  ELSE IF depth = None THEN (IF output = 0 THEN input.st ELSE pSType)
                  ELSE IF dbitPS >= 32 THEN FLOAT ELSE INTEGER
        fulld == Fulld(output, fulls)
    IN  IF depth # None /\ ~IsInt(depth)
        THEN Raise(c, Err("TypeError", "BM3D", "depth", 0))
        ELSE IF sample # None /\ ~IsInt(sample)
        THEN Raise(c, Err("TypeError", "BM3D", "sample", 0))
        ELSE IF sample # None /\ sample.i # INTEGER /\ sample.i # FLOAT
        THEN Raise(c, Err("ValueError", "BM3D", "sample", 0))
        ELSE IF dSType = INTEGER /\ (dbitPS < 8 \/ dbitPS > 16)
        THEN Raise(c, Err("ValueError", "BM3D", "integer output", dbitPS))
        ELSE IF dSType = FLOAT /\ (dbitPS # 16 /\ dbitPS # 32)
        THEN Raise(c, Err("ValueError", "BM3D", "float output", dbitPS))
        ELSE BM3DRun(BM3DLocals(c, input, pre, ref),
                     BM3DStmts(input, pre, ref,
                               IF sIsGRAY THEN <<sigma[1], PyInt(0), PyInt(0)>>
                               ELSE sigma,
                               radius1, radius2, profile1, profile2, refine, matrix, css,
                               output, PyInt(pbitPS), PyInt(pSType), fulls,
                               PyInt(dbitPS), PyInt(dSType), fulld), 1).c

\* BM3D from "# Parameters processing" after sigma on
BM3DParams(c, input, sigma, radius1, radius2, profile1, profile2, refine, pre, ref, matrix, css, output, pbitPS, pSType, fulls, depth, sample) ==
    LET radius1R == IF radius1 = None THEN 0 ELSE radius1.i
        radius2R == IF radius2 = None THEN radius1R ELSE radius2.i
        profile1R == IF profile1 = None THEN sFast ELSE profile1.s
        profile2R == IF profile2 = None THEN profile1R ELSE profile2.s
        refineR == IF refine = None THEN 1 ELSE refine.i
        outputR == IF output = None THEN 0 ELSE output.i
    IN  IF radius1 # None /\ ~IsInt(radius1)
        THEN Raise(c, Err("TypeError", "BM3D", "radius1", 0))
        ELSE IF radius1R < 0 THEN Raise(c, Err("ValueError", "BM3D", "radius1", 0))
        ELSE IF radius2 # None /\ ~IsInt(radius2)
        THEN Raise(c, Err("TypeError", "BM3D", "radius2", 0))
        ELSE IF radius2R < 0 THEN Raise(c, Err("ValueError", "BM3D", "radius2", 0))
        ELSE IF profile1 # None /\ ~IsStr(profile1)
        THEN Raise(c, Err("TypeError", "BM3D", "profile1", 0))
        ELSE IF profile2 # None /\ ~IsStr(profile2)
        THEN Raise(c, Err("TypeError", "BM3D", "profile2", 0))
        ELSE IF refine # None /\ ~IsInt(refine)
        THEN Raise(c, Err("TypeError", "BM3D", "refine", 0))
        ELSE IF refineR < 0 THEN Raise(c, Err("ValueError", "BM3D", "refine", 0))
        ELSE IF output # None /\ ~IsInt(output)
        THEN Raise(c, Err("TypeError", "BM3D", "output", 0))
        ELSE IF outputR < 0 \/ outputR > 2
        THEN Raise(c, Err("ValueError", "BM3D", "output", 0))
        ELSE IF pre # None /\ ~SameFormat(pre, input)
        THEN Raise(c, Err("ValueError", "BM3D", "pre format", 0))
        ELSE IF pre # None /\ ~SameSize(pre, input)
        THEN Raise(c, Err("ValueError", "BM3D", "pre size", 0))
        ELSE IF ref # None /\ ~SameFormat(ref, input)
        THEN Raise(c, Err("ValueError", "BM3D", "ref format", 0))
        ELSE IF ref # None /\ ~SameSize(ref, input)
        THEN Raise(c, Err("ValueError", "BM3D", "ref size", 0))
        ELSE BM3DOutput(c, input, pre, ref, SigmaList(sigma), radius1R, radius2R,
                        profile1R, profile2R, refineR, matrix, css, outputR, pbitPS,
                        pSType, fulls, depth, sample)

\* BM3D from "# Get properties of input clip" on, matrix the str of GetMatrix
BM3DChecked(c, input, sigma, radius1, radius2, profile1, profile2, refine, pre, ref, psample, matrix, full, output, css, depth, sample) ==
    LET fulls == IF full = None THEN PyBool(BM3DFulls(input.cf, matrix.s)) ELSE full
        pSType == IF psample = None THEN INTEGER ELSE psample.i
        pbitPS == IF pSType = INTEGER THEN 16 ELSE 32
        cssR == IF css = None
                THEN PyStr(<<DigitStr(Pow2(input.ssw)), DigitStr(Pow2(input.ssh))>>)
                ELSE PyStr(PresetCss(css.s))
    IN  IF input.cf = "COMPAT"
        THEN Raise(c, Err("ValueError", "BM3D", "color family", 0))
        ELSE IF full # None /\ ~IsInt(full)
        THEN Raise(c, Err("TypeError", "BM3D", "full", 0))
        ELSE IF psample # None /\ ~IsInt(psample)
        THEN Raise(c, Err("TypeError", "BM3D", "psample", 0))
        ELSE IF pSType # INTEGER /\ pSType # FLOAT
        THEN Raise(c, Err("ValueError", "BM3D", "psample", 0))
        ELSE IF css # None /\ ~IsStr(css)
        THEN Raise(c, Err("TypeError", "BM3D", "css", 0))
        ELSE IF css # None /\ CssError(PresetCss(css.s)) # ""
        THEN Raise(c, Err(CssError(PresetCss(css.s)), "int", "css", 0))
        ELSE IF sigma # None /\ ~IsInt(sigma) /\ ~IsFloat(sigma) /\ ~IsList(sigma)
        THEN Raise(c, Err("TypeError", "BM3D", "sigma", 0))
        ELSE IF sigma # None /\ IsList(sigma) /\ sigma.s = <<>>
        THEN Raise(c, Err("IndexError", "BM3D", "sigma", 0))
        ELSE BM3DParams([c EXCEPT !.arg = IF sigma # None /\ IsList(sigma)
                                          THEN PyList(Padded(sigma.s)) ELSE sigma],
                        input, sigma, radius1, radius2, profile1, profile2, refine, pre,
                        ref, matrix, cssR, output, pbitPS, pSType, fulls, depth, sample)

\* BM3D(input, sigma, radius1, radius2, profile1, profile2, refine, pre, ref,
\* psample, matrix, full, output, css, depth, sample), input the clip of c
BM3D(c, sigma, radius1, radius2, profile1, profile2, refine, pre, ref, psample, matrix, full, output, css, depth, sample) ==
    IF GetMatrix(c.clip, matrix, PyBool(TRUE), PyBool(FALSE)).err # NoErr
    THEN Raise([c EXCEPT !.arg = sigma],
               GetMatrix(c.clip, matrix, PyBool(TRUE), PyBool(FALSE)).err)
    ELSE BM3DChecked([c EXCEPT !.arg = sigma], c.clip, sigma, radius1, radius2,
                     profile1, profile2, refine, pre, ref, psample,
                     GetMatrix(c.clip, matrix, PyBool(TRUE), PyBool(FALSE)).val, full,
                     output, css, depth, sample)

\* the clips a caller denoises
BM3DInputs ==
    {Clip("YUV", 8, INTEGER, 1, 1, 640, 480), Clip("YUV", 16, INTEGER, 0, 0, 1920, 1080),
     Clip("YCOCG", 8, INTEGER, 0, 0, 640, 480), Clip("RGB", 8, INTEGER, 0, 0, 640, 480),
     Clip("GRAY", 8, INTEGER, 0, 0, 640, 480), Clip("GRAY", 32, FLOAT, 0, 0, 640, 480)}

\* pre for input: none, or a clip of its own (id -1)
PreFor(input) == {None, [input EXCEPT !.id = -1]}

SigmaLists ==
    {<<PyFloat10(30)>>, <<PyFloat10(30), PyInt(0)>>,
     <<PyInt(0), PyFloat10(30), PyFloat10(30)>>,
     <<PyFloat10(30), PyInt(0), PyFloat10(30)>>}

SigmaArgs == {None, PyInt(0)} \cup {PyList(xs) : xs \in SigmaLists}

SigmaBadArgs == {Other, PyList(<<>>)}

Radius1Args == {None, PyInt(0), PyInt(1)}

Radius2Args == {None, PyInt(0), PyInt(1), PyInt(2)}

RefineArgs == {None, PyInt(0), PyInt(2)}

OutputArgs == {None, PyInt(1), PyInt(2)}

OutputAllArgs == OutputArgs \cup {PyInt(0), PyInt(3)}

PsampleArgs == {None, PyInt(FLOAT)}

BM3DCssArgs == {None, PyStr(s444), PyStr(<<"4", "2", "0">>)}

BM3DDepthArgs == {None, PyInt(10), PyInt(32)}

BM3DMatrixArgs == {None, PyStr(mYCgCo)}

\* the largest number of the arguments of the formats a caller of BM3D gives
MaxGivenBM3D == 2

\* a caller calls BM3D: with the arguments of the filtering and the output
\* selector, or with sigma and the arguments of the formats
CallBM3D ==
    /\ pc = "idle"
    /\ \E S \in GivenSets({"radius1", "radius2", "refine", "pre", "ref", "psample",
                             "css", "depth", "matrix", "full"}, 5) :
       \E input \in BM3DInputs, sigma \in SigmaArgs \cup SigmaBadArgs,
          output \in OutputAllArgs,
          radius1 \in Arg(S, "radius1", Radius1Args),
          radius2 \in Arg(S, "radius2", Radius2Args),
          refine \in Arg(S, "refine", RefineArgs),
          psample \in Arg(S, "psample", PsampleArgs),
          css \in Arg(S, "css", BM3DCssArgs), depth \in Arg(S, "depth", BM3DDepthArgs),
          matrix \in Arg(S, "matrix", BM3DMatrixArgs),
          full \in Arg(S, "full", BoolArgs \ {PyBool(FALSE)}) :
       \E pre \in Arg(S, "pre", PreFor(input)), ref \in Arg(S, "ref", RefFor(input)) :
          /\ \/ /\ S \subseteq {"radius1", "radius2", "refine", "pre", "ref"}
                /\ sigma \in SigmaArgs /\ output \in OutputArgs
             \/ /\ S \subseteq {"psample", "css", "depth", "matrix", "full"}
                /\ Cardinality(S) <= MaxGivenBM3D
          /\ \E c \in {BM3D(Ctx(input), sigma, radius1, radius2, None, None, refine, pre,
                            ref, psample, matrix, full, output, css, depth, None)} :
              /\ call' = [NoCall EXCEPT !.func = "BM3D", !.input = input,
                            !.sigma = sigma, !.radius1 = radius1, !.radius2 = radius2,
                            !.refine = refine, !.pre = pre, !.ref = ref,
                            !.psample = psample, !.matrix = matrix, !.full = full,
                            !.output = output, !.css = css, !.depth = depth]
              /\ ops' = c.ops
              /\ ret' = [NoRet EXCEPT !.err = c.err, !.clip = c.clip, !.plans = c.plans,
                                      !.arg = c.arg]
    /\ pc' = "done"

NextBM3D == CallBM3D \/ Return

SpecBM3D == Init /\ [][NextBM3D]_vars

\* BM3D returned a clip
Denoised == Done /\ call.func = "BM3D" /\ ret.err = NoErr

\* the arguments of the call with the defaults the documentation gives
Radius1Of == IF call.radius1 = None THEN 0 ELSE call.radius1.i

Radius2Of == IF call.radius2 = None THEN Radius1Of ELSE call.radius2.i

RefineOf == IF call.refine = None THEN 1 ELSE call.refine.i

OutputOf == IF call.output = None THEN 0 ELSE call.output.i

\* the strength of plane p (1, 2, 3) in tenths
SigmaOf(p) == Num10(SigmaList(call.sigma)[p])

\* the range of the input: "full", or guessed from the family and the matrix
InputFull ==
    IF call.full # None THEN Truthy(call.full)
    ELSE BM3DFulls(call.input.cf,
                   GetMatrix(call.input, call.matrix, PyBool(TRUE), PyBool(FALSE)).val.s)

\* the estimates of the filter: the basic and the final estimate, spatial or
\* spatial-temporal (V)
SpatialOps == {"bm3d.Basic", "bm3d.Final"}

TemporalOps == {"bm3d.VBasic", "bm3d.VFinal"}

\* the core calls that run the denoise engine
Runs == {k \in DOMAIN ops : ops[k].op \in SpatialOps \cup TemporalOps}

\* the core calls of the estimates: the engine, the aggregation, and the
\* shuffle that puts an unprocessed Y plane back
EstimateOps ==
    {k \in DOMAIN ops :
        \/ ops[k].op \in SpatialOps \cup TemporalOps \cup {"bm3d.VAggregate"}
        \/ /\ ops[k].op = "std.ShufflePlanes" /\ k > 1
           /\ ops[k - 1].op = "bm3d.VAggregate"
           /\ ops[k].clips[1] # k - 1 /\ Len(ops[k].clips) = 3
           /\ ops[k].clips[2] = k - 1 /\ ops[k].clips[3] = k - 1}

\* the runs of the final estimate: all but the first when there is no "ref"
FinalRuns ==
    {k \in Runs : call.ref = None => \E j \in Runs : j < k}

\* the clip with id x is the result of an estimate
IsEstimate(x) == x \in EstimateOps

RECURSIVE FamilyOf(_)
\* the color family of the clip with id x
FamilyOf(x) ==
    IF x <= 0 THEN call.input.cf
    ELSE IF ops[x].colfam # "" THEN ops[x].colfam
    ELSE FamilyOf(ops[x].src)

\* the run k filters the internal clip with the result of the pass before it
\* as reference ("ref" for the first one when it is given)
RefinesPrevious(k) ==
    /\ \A j \in Runs : ops[j].src = ops[k].src
    /\ ~IsEstimate(ops[k].src)
    /\ ops[k].ref # None
    /\ IF \E j \in Runs : j < k
       THEN ops[k].ref = PyInt(k - 1) /\ IsEstimate(k - 1)
       ELSE ~IsEstimate(ops[k].ref.i) /\ ops[k].ref.i # ops[k].src

\* C22: BM3D with refine = n runs the final estimate n times after the basic
\* estimate: the engine is run 1 + n times, n times when "ref" replaces the
\* basic estimate; every run of the final estimate is a final estimate of the
\* engine (bm3d.Final or bm3d.VFinal) on the one internal clip, never on an
\* estimate, with the result of the pass before it as reference; with
\* refine = 0 the result is the basic estimate.
C22_FinalEstimates ==
    Denoised =>
        /\ Cardinality(Runs) = RefineOf + (IF call.ref = None THEN 1 ELSE 0)
        /\ Cardinality(FinalRuns) = RefineOf
        /\ \A k \in FinalRuns :
              ops[k].op \in {"bm3d.Final", "bm3d.VFinal"} /\ RefinesPrevious(k)

\* the count, the clip and the reference of C22 for the passes the code makes,
\* whatever function of the engine they call
C22_Passes ==
    Denoised =>
        /\ Cardinality(Runs) = RefineOf + (IF call.ref = None THEN 1 ELSE 0)
        /\ Cardinality(FinalRuns) = RefineOf
        /\ \A k \in FinalRuns : RefinesPrevious(k)

\* C23: the temporal radius of the final estimate is radius2 (radius1 when
\* radius2 is not given): every pass of the final estimate is spatial exactly
\* when radius2 = 0, and otherwise spatial-temporal with radius radius2 and
\* aggregated with that same radius, whatever radius1 is.
C23_FinalRadius ==
    Denoised =>
        \A k \in FinalRuns :
            IF Radius2Of = 0 THEN ops[k].op \in SpatialOps
            ELSE /\ ops[k].op \in TemporalOps
                 /\ ops[k].radius = Radius2Of
                 /\ k < Len(ops)
                 /\ ops[k + 1].op = "bm3d.VAggregate"
                 /\ ops[k + 1].radius = Radius2Of

\* the core calls after the conversion to the opponent space, the last
\* estimate and the shuffle that puts the unprocessed planes back: the
\* conversion to the output format
RECURSIVE OutputFrom(_)
OutputFrom(k) ==
    IF k = 0 THEN 1
    ELSE IF k \in EstimateOps \/ ops[k].coef = "RGB to OPP" THEN k + 1
    ELSE OutputFrom(k - 1)

OutputOps ==
    {k \in OutputFrom(Len(ops)) .. Len(ops) : ops[k].op # "std.ShufflePlanes"}

\* the conversions of the output part: OPP to RGB, RGB to YUV/YCoCg
BackToRGB == {k \in OutputOps : ops[k].op = "fmtc.matrix" /\ ops[k].colfam = "RGB"}

BackToYUV ==
    {k \in OutputOps : ops[k].op = "fmtc.matrix" /\ ops[k].colfam \in {"YUV", "YCOCG"}}

\* _ColorRange of a full range clip and of a limited range clip
RangeProp(full) == IF full THEN 0 ELSE 1

\* BM3D returned a clip for an input that is not Gray
DenoisedColor == Denoised /\ call.input.cf # "GRAY"

\* C24: for an input that is not Gray, output = 0 converts the result back to
\* RGB and, for an input that is not RGB, on to the family of the input, with
\* the range of the input and, when depth, sample and css are not given, its
\* depth, sample type and sub-sampling; output = 1 converts to RGB and returns
\* full range RGB; output = 2 makes neither conversion and returns the full
\* range opponent clip after a depth conversion only.
C24_OutputSelector ==
    DenoisedColor =>
        /\ OutputOf = 0 =>
              /\ Cardinality(BackToRGB) = 1
              /\ call.input.cf # "RGB" =>
                    \E k \in BackToYUV : \A j \in BackToRGB : j < k
              /\ ret.clip.cf = call.input.cf
              /\ ret.clip.ColorRange = RangeProp(InputFull)
              /\ call.depth = None =>
                    ret.clip.bits = call.input.bits /\ ret.clip.st = call.input.st
              /\ call.css = None =>
                    ret.clip.ssw = call.input.ssw /\ ret.clip.ssh = call.input.ssh
        /\ OutputOf = 1 =>
              /\ Cardinality(BackToRGB) = 1 /\ BackToYUV = {}
              /\ ret.clip.cf = "RGB" /\ ret.clip.ColorRange = RangeProp(TRUE)
        /\ OutputOf = 2 =>
              /\ \A k \in OutputOps :
                    ops[k].op \in {"fmtc.bitdepth", "z.Depth", "std.SetFrameProp"}
              /\ ret.clip.cf = "YUV" /\ ret.clip.ColorRange = RangeProp(TRUE)
              /\ ret.clip.ssw = 0 /\ ret.clip.ssh = 0

\* the matrix of the input as BM3D resolves it
MatrixOf == GetMatrix(call.input, call.matrix, PyBool(TRUE), PyBool(FALSE)).val.s

\* the family the conversion from RGB ends in: YCoCg for the matrix YCgCo,
\* YUV for every other matrix
FamilyByMatrix == IF MatrixOf = mYCgCo THEN "YCOCG" ELSE "YUV"

\* C24, amended: as C24, but for an input that is not RGB output = 0 ends in
\* the family the matrix names, YCoCg for "YCgCo" and YUV otherwise; that is
\* the family of the input when "matrix" is not given.
C24_OutputSelectorAmended ==
    DenoisedColor =>
        /\ OutputOf = 0 =>
              /\ Cardinality(BackToRGB) = 1
              /\ call.input.cf # "RGB" =>
                    \E k \in BackToYUV : \A j \in BackToRGB : j < k
              /\ ret.clip.cf = IF call.input.cf = "RGB" THEN "RGB" ELSE FamilyByMatrix
              /\ call.matrix = None => ret.clip.cf = call.input.cf
              /\ ret.clip.ColorRange = RangeProp(InputFull)
              /\ call.depth = None =>
                    ret.clip.bits = call.input.bits /\ ret.clip.st = call.input.st
              /\ call.css = None =>
                    ret.clip.ssw = call.input.ssw /\ ret.clip.ssh = call.input.ssh
        /\ OutputOf = 1 =>
              /\ Cardinality(BackToRGB) = 1 /\ BackToYUV = {}
              /\ ret.clip.cf = "RGB" /\ ret.clip.ColorRange = RangeProp(TRUE)
        /\ OutputOf = 2 =>
              /\ \A k \in OutputOps :
                    ops[k].op \in {"fmtc.bitdepth", "z.Depth", "std.SetFrameProp"}
              /\ ret.clip.cf = "YUV" /\ ret.clip.ColorRange = RangeProp(TRUE)
              /\ ret.clip.ssw = 0 /\ ret.clip.ssh = 0

\* the call of BM3D with "output" and "css" left out, all else as given
WithoutOutputAndCss ==
    BM3D(Ctx(call.input), call.sigma, call.radius1, call.radius2, None, None,
         call.refine, call.pre, call.ref, call.psample, call.matrix, call.full, None,
         None, call.depth, None)

\* the core calls, and the depth, sample type and range of the clip returned,
\* are those of the invocation c
SameResult(c) ==
    /\ ops = c.ops
    /\ ret.clip.bits = c.clip.bits /\ ret.clip.st = c.clip.st
    /\ ret.clip.ColorRange = c.clip.ColorRange

\* C25: for a Gray input "output" and "css" take no effect: a call with
\* output 0, 1 or 2 and any css makes the core calls, and returns a clip of
\* the depth, sample type and range, of the call that differs from it in
\* output and css only (here: the one that gives neither).
C25_GrayIgnoresOutput ==
    Denoised /\ call.input.cf = "GRAY" /\ ~Failed(WithoutOutputAndCss)
        => SameResult(WithoutOutputAndCss)

\* the clip with id x is a single plane taken from an opponent clip
IsLumaOf(x) ==
    /\ x > 0
    /\ ops[x].op = "std.ShufflePlanes" /\ ops[x].colfam = "GRAY"
    /\ ops[x].planes = PyList(<<PyInt(0)>>)
    /\ Len(ops[x].clips) = 1 /\ FamilyOf(ops[x].clips[1]) = "YUV"

\* the clips the engine is given: the source and the reference of each run
EngineClips ==
    {ops[k].src : k \in Runs} \cup {ops[k].ref.i : k \in {j \in Runs : ops[j].ref # None}}

\* the opponent clip of the input before it is denoised: the clip the
\* source of the engine is the luma plane of
SrcOPP(k) == ops[ops[k].src].clips[1]

\* the shuffles that put the output together: YUV from three clips, after
\* the last estimate
Reassembled ==
    {k \in DOMAIN ops :
        /\ ops[k].op = "std.ShufflePlanes" /\ ops[k].colfam = "YUV"
        /\ k \notin EstimateOps /\ k >= OutputFrom(Len(ops)) - 1
        /\ Len(ops[k].clips) = 3}

\* C26: for an input that is not Gray, when the strength of both chroma
\* planes is zero the engine is only given the luma plane of the opponent
\* clips (input, pre and ref alike) and the output is put together, before
\* the output conversion, from the denoised luma plane and the two chroma
\* planes of the opponent clip as it was before denoising; when a chroma
\* strength is positive the engine is given clips of all three planes.
C26_LumaOnly ==
    DenoisedColor /\ Runs # {} =>
        IF SigmaOf(2) = 0 /\ SigmaOf(3) = 0
        THEN /\ \A x \in EngineClips : IsEstimate(x) \/ IsLumaOf(x)
             /\ \A k \in Runs : IsLumaOf(ops[k].src)
             /\ \E k \in Reassembled : \A j \in Runs :
                   /\ j < k
                   /\ IsEstimate(ops[k].clips[1]) /\ FamilyOf(ops[k].clips[1]) = "GRAY"
                   /\ \A e \in EstimateOps : e <= ops[k].clips[1]
                   /\ ops[k].clips[2] = SrcOPP(j) /\ ops[k].clips[3] = SrcOPP(j)
                   /\ \A o \in OutputOps : o > k
        ELSE (SigmaOf(2) > 0 \/ SigmaOf(3) > 0) =>
                \A x \in EngineClips : FamilyOf(x) = "YUV" /\ ~IsLumaOf(x)

\* BM3D denoised the luma plane alone of a YUV input, with pre given
C26_Witness ==
    /\ DenoisedColor /\ call.input.cf = "YUV" /\ call.pre # None
    /\ SigmaOf(1) > 0 /\ SigmaOf(2) = 0 /\ SigmaOf(3) = 0
    /\ Cardinality(Runs) = 2 /\ \A k \in Runs : IsLumaOf(ops[k].src)
    /\ Reassembled # {}

====
